---- MODULE Spec2Model ----
(***************************************************************************)
(* Logos memory engine: the vector store (collection lifecycle, upsert,    *)
(* search, delete), the letter protocol and the MCP tool handlers, as a    *)
(* state machine over the external vector index.                           *)
(*                                                                         *)
(* Python strings are modelled as sequences of tokens: a user-supplied     *)
(* string is a sequence of one-character tokens, and a literal of the      *)
(* source ("future_letter", "Summary:") is one token.                      *)
(***************************************************************************)
EXTENDS Integers, Sequences, FiniteSets, TLC

(***************************************************************************)
(* Bounds of the model.                                                    *)
(***************************************************************************)
MaxPoints == 2      \* uuid4 values handed out (points and letters)
MaxLimit == 4       \* largest limit argument tried
MaxScore == 2       \* similarity scores are 1..MaxScore
MaxBatch == 2       \* longest texts list passed to upsert
OtherSize == 384    \* how far the dimension of another embedding model is from 384

(***************************************************************************)
(* Program constants.                                                      *)
(***************************************************************************)
\* LogosVectorStore.COLLECTIONS, in dict order
COLLECTIONS == <<"logos_essence", "project_knowledge", "canon">>

CollectionNames == {COLLECTIONS[i] : i \in 1..Len(COLLECTIONS)}

\* query_logos: limit=min(limit, 3) for the essence search
ESSENCE_CAP == 3

\* store_letter: interaction_summary[:200], lesson_learned[:200]
PREVIEW_LEN == 200

\* LogosEmbedder.vector_size fallback / all-MiniLM-L6-v2 dimension
VECTOR_SIZE == 384

Min(a, b) == IF a <= b THEN a ELSE b

Max(a, b) == IF a >= b THEN a ELSE b

(***************************************************************************)
(* State.                                                                  *)
(***************************************************************************)
VARIABLES
    index,            \* collections of the vector index: name -> vector size
    points,           \* points of the index: set of [id, coll, payload]
    nextId,           \* number of uuid4 values generated so far
    clock,            \* datetime.now(): number of letters constructed so far
    store,            \* TRUE once a LogosVectorStore has been constructed
    qt_vector_store,  \* query_tools._vector_store is set
    qt_prompt_manager,\* query_tools._prompt_manager is set
    ft_file_processor,\* file_tools._file_processor is set
    ft_vector_store,  \* file_tools._vector_store is set
    mt_letter_protocol,\* memory_tools._letter_protocol: "none", "detached", "attached"
    calls,            \* calls the last operation made to its collaborators
    last,             \* the last operation and what it returned
    model,            \* LogosEmbedder.model: which TextEmbedding it is, and its dimension
    additional_principles, \* LogosConstitution.additional_principles, in insertion order
    ensuring,         \* _ensure_collections calls in progress: position, existing_names
    upserting,        \* upsert calls in progress: position and the points built
    main_pc           \* position of main() and create_logos_server()

vars == <<index, points, nextId, clock, store, qt_vector_store, qt_prompt_manager,
          ft_file_processor, ft_vector_store, mt_letter_protocol, calls, last,
          model, additional_principles, ensuring, upserting, main_pc>>

\* the embedder, the constitution, the calls in progress and the startup
procVars == <<model, additional_principles, ensuring, upserting, main_pc>>

toolVars == <<qt_vector_store, qt_prompt_manager, ft_file_processor,
              ft_vector_store, mt_letter_protocol>>

(***************************************************************************)
(* Calls to collaborators (embedder, index client, prompt manager,         *)
(* document processor), in the order the operation makes them.             *)
(***************************************************************************)
Call(svc, op, coll, n) ==
    [svc |-> svc, op |-> op, coll |-> coll, n |-> n, raised |-> FALSE, out |-> <<>>]

\* the call raised an exception
Raise(call) == [call EXCEPT !.raised = TRUE]

\* the call, raising when `bad`
RaiseIf(bad, call) == IF bad THEN Raise(call) ELSE call

\* the call returned the results `out`
Returning(call, out) == [call EXCEPT !.out = out]

(***************************************************************************)
(* What an operation returned.  status is "ok" when it returned and        *)
(* "raised" when an exception left it; ret names the returned value.       *)
(***************************************************************************)
NoResp ==
    [op |-> "none", status |-> "ok", ret |-> "None", coll |-> "", limit |-> 0,
     arg |-> "", error |-> "", constitution |-> <<>>,
     personality_memories |-> <<>>, project_knowledge |-> <<>>,
     memories |-> <<>>, letters |-> <<>>, metadata |-> {}, counts |-> <<>>,
     texts |-> <<>>, metadatas |-> <<>>, prompt |-> <<>>]

Resp(op) == [NoResp EXCEPT !.op = op]

(***************************************************************************)
(* Python values.                                                          *)
(***************************************************************************)
\* faulty variant: the entries of d win on every key they share with m
DictUpdate_KeepsOwn(d, m) ==
    [k \in (DOMAIN d) \cup (DOMAIN m) |-> IF k \in DOMAIN d THEN d[k] ELSE m[k]]

\* dict.update: the entries of m win on every key they share with d
DictUpdate(d, m) ==
    [k \in (DOMAIN d) \cup (DOMAIN m) |-> IF k \in DOMAIN m THEN m[k] ELSE d[k]]

\* {k: v for k, v in d.items() if k != "text"}
WithoutText(d) == [k \in (DOMAIN d) \ {"text"} |-> d[k]]

\* d.get(k, default)
DictGet(d, k, default) == IF k \in DOMAIN d THEN d[k] ELSE default

(***************************************************************************)
(* Inputs.                                                                 *)
(***************************************************************************)
Texts == {<<"d">>, <<"e">>}

SeqsUpTo(S, n) == UNION {[1..k -> S] : k \in 0..n}

\* metadatas: absent (None and [] behave alike), shorter than texts, one per
\* text, and one that carries its own "text" key
MetadataLists == {<<>>,
                  <<[k \in {"file"} |-> <<"a">>]>>,
                  <<[k \in {"text"} |-> <<"o">>]>>,
                  <<[k \in {"text"} |-> <<"o">>], [k \in {"file"} |-> <<"a">>]>>}

Limits == 0..MaxLimit

\* limits tried on the store directly: none, one, and more than there are points
StoreLimits == {0, 1, MaxLimit}

Scores == 1..MaxScore

(***************************************************************************)
(* The external vector index (Qdrant), as the store's client sees it.      *)
(***************************************************************************)
PointsOf(c) == {p \in points : p.coll = c}

\* faulty variant: the same id every time
Uuid_Reused(n) == <<"1">>

\* uuid.uuid4(): a value never handed out before
Uuid(n) == <<ToString(n)>>

\* client.search(limit=..., with_payload=True): the min(limit, size) best
\* points of the collection, best first; the scores are the index's business
SearchOutcomes(c, limit) ==
    LET P == PointsOf(c)
        n == Min(Max(limit, 0), Cardinality(P))
        R == {[id |-> p.id, payload |-> p.payload, score |-> sc] :
                 p \in P, sc \in Scores}
    IN  {s \in [1..n -> R] :
            /\ \A i, j \in 1..n : i # j => s[i].id # s[j].id
            /\ \A i \in 1..(n - 1) : s[i].score >= s[i + 1].score}

(***************************************************************************)
(* LogosVectorStore.  Every operation takes `f`, the position of the first *)
(* collaborator call that raises (0: none does), and yields what it did.   *)
(***************************************************************************)
\* existing_names = {c.name for c in get_collections().collections}
ExistingNames(idx) == DOMAIN idx

\* faulty variant: the membership test is dropped, every collection is created anew
NeedsCreate_Always(c, existing) == TRUE

\* if collection_name not in existing_names
NeedsCreate(c, existing) == c \notin existing

\* create_collection(collection_name, VectorParams(size=embedder.vector_size));
\* vector_size embeds "test" and falls back to 384 if that raises
CreateCalls(c, bad) ==
    <<Call("embedder", "embed_text", "", 1),
      RaiseIf(bad, Call("index", "create_collection", c, VECTOR_SIZE))>>

\* the loop of _ensure_collections from COLLECTIONS[i] on, after k creates;
\* the index refuses to create a collection it already has
RECURSIVE EnsureLoop(_, _, _, _, _)
EnsureLoop(i, idx, existing, k, f) ==
    IF i > Len(COLLECTIONS)
    THEN [raised |-> FALSE, index |-> idx, calls |-> <<>>]
    ELSE IF ~NeedsCreate(COLLECTIONS[i], existing)
    THEN EnsureLoop(i + 1, idx, existing, k, f)
    ELSE LET c == COLLECTIONS[i]
             bad == f = k + 2 \/ c \in DOMAIN idx
             rest == EnsureLoop(i + 1, [d \in (DOMAIN idx) \cup {c} |->
                                           IF d \in DOMAIN idx THEN idx[d]
                                           ELSE VECTOR_SIZE],
                                existing, k + 1, f)
         IN  IF bad
             THEN [raised |-> TRUE, index |-> idx, calls |-> CreateCalls(c, TRUE)]
             ELSE [rest EXCEPT !.calls = CreateCalls(c, FALSE) \o rest.calls]

\* _ensure_collections: f = 1 is get_collections raising, f = k + 1 the k-th
\* create_collection raising
ensure_collections(idx, f) ==
    IF f = 1
    THEN [raised |-> TRUE, index |-> idx,
          calls |-> <<Raise(Call("index", "get_collections", "", 0))>>]
    ELSE LET r == EnsureLoop(1, idx, ExistingNames(idx), 0, f)
         IN  [r EXCEPT !.calls = <<Call("index", "get_collections", "", 0)>>
                                     \o r.calls]

\* faulty variant: the metadata is dropped
Payload_TextOnly(text, metadatas, i) == [k \in {"text"} |-> text]

\* payload = {"text": text}; if metadatas and i < len(metadatas): update
Payload(text, metadatas, i) ==
    LET base == [k \in {"text"} |-> text]
    IN  IF metadatas # <<>> /\ i <= Len(metadatas)
        THEN DictUpdate(base, metadatas[i])
        ELSE base

\* faulty variant: no early return for an empty batch
EmptyBatch_Never(texts) == FALSE

\* if not texts: return
EmptyBatch(texts) == texts = <<>>

\* points = [PointStruct(id=str(uuid.uuid4()), vector=..., payload=...)] with
\* one point per text; n0 uuids exist already
PointStructs(c, texts, metadatas, n0) ==
    {[id |-> Uuid(n0 + i), coll |-> c, payload |-> Payload(texts[i], metadatas, i)] :
        i \in 1..Len(texts)}

\* upsert: f = 1 is embed_text raising, f = 2 is client.upsert raising (it
\* also raises when the collection does not exist); n0 uuids exist already
upsert(c, texts, metadatas, f, n0) ==
    IF EmptyBatch(texts)
    THEN [raised |-> FALSE, calls |-> <<>>, new |-> {}, ids |-> 0]
    ELSE IF f = 1
    THEN [raised |-> TRUE, new |-> {}, ids |-> 0,
          calls |-> <<Raise(Call("embedder", "embed_text", "", Len(texts)))>>]
    ELSE LET pts == PointStructs(c, texts, metadatas, n0)
             bad == f = 2 \/ c \notin DOMAIN index
         IN  [raised |-> bad, new |-> IF bad THEN {} ELSE pts,
              ids |-> Len(texts),
              calls |-> <<Call("embedder", "embed_text", "", Len(texts)),
                          RaiseIf(bad, Call("index", "upsert", c, Len(texts)))>>]

\* search: f = 1 is embed_text raising, f = 2 is client.search raising
search(c, limit, f, found) ==
    IF f = 1
    THEN [raised |-> TRUE, results |-> <<>>,
          calls |-> <<Raise(Call("embedder", "embed_text", "", 1))>>]
    ELSE LET bad == f = 2 \/ c \notin DOMAIN index
         IN  [raised |-> bad, results |-> IF bad THEN <<>> ELSE found,
              calls |-> <<Call("embedder", "embed_text", "", 1),
                          IF bad THEN Raise(Call("index", "search", c, limit))
                          ELSE Returning(Call("index", "search", c, limit), found)>>]

\* faulty variant: the points sent become the whole collection
IndexUpsert_ReplacesAll(new) ==
    {p \in points : \A q \in new : q.coll # p.coll} \cup new

\* client.upsert(collection_name, points): a point replaces the point of the
\* collection that has its id, if there is one
IndexUpsert(new) ==
    {p \in points : \A q \in new : ~(q.coll = p.coll /\ q.id = p.id)} \cup new

\* what client.delete(collection_name, points=ids) removes
Deleted(c, ids) == {p \in points : p.coll = c /\ p.id \in ids}

\* what client.delete(collection_name, points=Filter()) removes
Cleared(c) == {p \in points : p.coll = c}

\* faulty variant: no try/except around client.get_collection
get_collection_info_Uncaught(c, f) ==
    IF f = 1 \/ c \notin DOMAIN index
    THEN [name |-> c, status |-> "None", points_count |-> 0, error |-> TRUE,
          raised |-> TRUE, keys |-> {}]
    ELSE [name |-> c, status |-> "exists",
          points_count |-> Cardinality(PointsOf(c)), error |-> FALSE,
          raised |-> FALSE,
          keys |-> {"name", "vectors_count", "points_count", "status"}]

\* get_collection_info: the exception of client.get_collection becomes a
\* value; keys are the keys of the dict returned (the error dict has no
\* points_count: the 0 is what .get("points_count", 0) reads from it)
get_collection_info(c, f) ==
    IF f = 1 \/ c \notin DOMAIN index
    THEN [name |-> c, status |-> "error", points_count |-> 0, error |-> TRUE,
          raised |-> FALSE, keys |-> {"name", "status", "error"}]
    ELSE [name |-> c, status |-> "exists",
          points_count |-> Cardinality(PointsOf(c)), error |-> FALSE,
          raised |-> FALSE,
          keys |-> {"name", "vectors_count", "points_count", "status"}]


(***************************************************************************)
(* Letters (memory/letter_protocol.py).                                    *)
(***************************************************************************)
Whitespace == {" ", "\n", "\t"}

\* str.strip()
RECURSIVE LStrip(_)
LStrip(s) ==
    IF s # <<>> /\ Head(s) \in Whitespace THEN LStrip(Tail(s)) ELSE s

RECURSIVE RStrip(_)
RStrip(s) ==
    IF s # <<>> /\ s[Len(s)] \in Whitespace
    THEN RStrip(SubSeq(s, 1, Len(s) - 1))
    ELSE s

Strip(s) == RStrip(LStrip(s))

\* s[:n]
Take(s, n) == SubSeq(s, 1, Min(Len(s), n))

\* faulty variant: the fields are tested without strip()
is_valid_Unstripped(letter) ==
    /\ letter.interaction_summary # <<>>
    /\ letter.emotional_context # <<>>

\* Letter.is_valid: bool(summary.strip()) and bool(context.strip())
is_valid(letter) ==
    /\ Strip(letter.interaction_summary) # <<>>
    /\ Strip(letter.emotional_context) # <<>>

\* Letter.format_letter
format_letter(letter) ==
    <<"Letter for the Future Self", "\n", "\n", "Context:", " ">>
        \o letter.emotional_context
        \o <<"\n", "Summary:", " ">> \o letter.interaction_summary
        \o (IF letter.lesson_learned # <<>>
            THEN <<"\n", "Lesson:", " ">> \o letter.lesson_learned
            ELSE <<>>)
        \o <<"\n", "Creator:", " ">> \o letter.creator
        \o <<"\n", "Timestamp:", " ">> \o letter.timestamp
        \o <<"\n", "Letter ID:", " ">> \o letter.letter_id

\* faulty variant: the summary and the lesson are stored whole
LetterMetadata_Untruncated(letter) ==
    [type |-> <<"future_letter">>,
     letter_id |-> letter.letter_id,
     creator |-> letter.creator,
     emotional_context |-> letter.emotional_context,
     timestamp |-> letter.timestamp,
     interaction_summary |-> letter.interaction_summary,
     lesson_learned |-> letter.lesson_learned]

\* the metadata dict store_letter and store_letters_bulk build
LetterMetadata(letter) ==
    [type |-> <<"future_letter">>,
     letter_id |-> letter.letter_id,
     creator |-> letter.creator,
     emotional_context |-> letter.emotional_context,
     timestamp |-> letter.timestamp,
     interaction_summary |-> Take(letter.interaction_summary, PREVIEW_LEN),
     lesson_learned |-> IF letter.lesson_learned # <<>>
                        THEN Take(letter.lesson_learned, PREVIEW_LEN)
                        ELSE <<>>]

\* Letter(...): __post_init__ fills timestamp and letter_id when absent
Letter(summary, context, lesson, creator, timestamp, letter_id) ==
    [interaction_summary |-> summary, emotional_context |-> context,
     lesson_learned |-> lesson, creator |-> creator,
     timestamp |-> timestamp, letter_id |-> letter_id]

Summaries == {<<>>, <<" ">>, <<"s">>, <<" ", "s">>}

Contexts == {<<>>, <<"\t">>, <<"c">>}

Lessons == {<<>>, <<"l">>}

Creators == {<<"u">>}

\* a string one character longer than the [:200] cut
LongText(ch) == [i \in 1..(PREVIEW_LEN + 1) |-> ch]

\* letters built by a caller, with timestamp and letter_id given
Letters ==
    {Letter(s, c, l, u, <<"0">>, <<"L">>) :
        s \in Summaries, c \in Contexts, l \in Lessons, u \in Creators}

\* letters passed in a batch: a blank one and two that are valid
BulkLetters ==
    {l \in Letters :
        /\ l.lesson_learned = <<>>
        /\ l.emotional_context = <<"c">>
        /\ l.interaction_summary # <<>>}

\* if not self.vector_store: return False
NoStore(attached) == ~attached

\* if not letter.is_valid(): return False
Rejected(letter) == ~is_valid(letter)

\* faulty variant: no try/except around the upsert
store_letter_Uncaught(letter, attached, f, n0) ==
    IF NoStore(attached) \/ Rejected(letter)
    THEN [ret |-> "False", raised |-> FALSE, calls |-> <<>>, new |-> {}, ids |-> 0]
    ELSE LET r == upsert("logos_essence", <<format_letter(letter)>>,
                         <<LetterMetadata(letter)>>, f, n0)
         IN  [ret |-> IF r.raised THEN "None" ELSE "True", raised |-> r.raised,
              calls |-> r.calls, new |-> r.new, ids |-> r.ids]

\* LetterProtocol.store_letter; f is passed on to the one upsert
store_letter(letter, attached, f, n0) ==
    IF NoStore(attached) \/ Rejected(letter)
    THEN [ret |-> "False", raised |-> FALSE, calls |-> <<>>, new |-> {}, ids |-> 0]
    ELSE LET r == upsert("logos_essence", <<format_letter(letter)>>,
                         <<LetterMetadata(letter)>>, f, n0)
         IN  [ret |-> IF r.raised THEN "False" ELSE "True", raised |-> FALSE,
              calls |-> r.calls, new |-> r.new, ids |-> r.ids]

\* faulty variant: no letter is filtered out
ValidLetters_All(letters) == letters

\* valid_letters = [letter for letter in letters if letter.is_valid()]
ValidLetters(letters) == SelectSeq(letters, is_valid)

\* LetterProtocol.store_letters_bulk
store_letters_bulk(letters, attached, f, n0) ==
    LET valid == ValidLetters(letters)
    IN  IF NoStore(attached) \/ valid = <<>>
        THEN [ret |-> "False", raised |-> FALSE, calls |-> <<>>, new |-> {},
              ids |-> 0]
        ELSE LET r == upsert("logos_essence",
                             [i \in 1..Len(valid) |-> format_letter(valid[i])],
                             [i \in 1..Len(valid) |-> LetterMetadata(valid[i])],
                             f, n0)
             IN  [ret |-> IF r.raised THEN "False" ELSE "True", raised |-> FALSE,
                  calls |-> r.calls, new |-> r.new, ids |-> r.ids]

\* LetterProtocol.get_recent_letters: search("logos_essence", "future_letter")
get_recent_letters(limit, attached, f, found) ==
    IF NoStore(attached)
    THEN [results |-> <<>>, calls |-> <<>>]
    ELSE LET r == search("logos_essence", limit, f, found)
         IN  [results |-> IF r.raised THEN <<>> ELSE r.results,
              calls |-> r.calls]

\* faulty variant: the defaults are returned whatever the store says
get_statistics_Defaults(attached, f) ==
    [total_letters |-> 0, collection_status |-> "unknown",
     calls |-> IF NoStore(attached) THEN <<>>
               ELSE <<RaiseIf(get_collection_info("logos_essence", f).error,
                              Call("index", "get_collection", "logos_essence", 0))>>]

\* LetterProtocol.get_statistics: the defaults, overwritten with what
\* get_collection_info returns unless it raises
get_statistics(attached, f) ==
    IF NoStore(attached)
    THEN [total_letters |-> 0, collection_status |-> "unknown", calls |-> <<>>]
    ELSE LET info == get_collection_info("logos_essence", f)
         IN  [total_letters |-> IF info.raised THEN 0 ELSE info.points_count,
              collection_status |-> IF info.raised THEN "unknown" ELSE info.status,
              calls |-> <<RaiseIf(info.error,
                                  Call("index", "get_collection", "logos_essence", 0))>>]

(***************************************************************************)
(* Query tools (tools/query_tools.py).  A tool returns a JSON document,    *)
(* modelled by the dict it serialises.                                     *)
(***************************************************************************)
\* LogosPromptManager.get_constitution
ConstitutionText == <<"IDENTITY:">>

\* {"text": payload.get("text", ""), "metadata": {...}, "score": score}
BundleEntry(result) ==
    [text |-> DictGet(result.payload, "text", <<>>),
     metadata |-> WithoutText(result.payload),
     score |-> result.score]

\* the same with "collection" in front, as get_memory_context builds it
MemoryEntry(c, result) ==
    [collection |-> c,
     text |-> DictGet(result.payload, "text", <<>>),
     metadata |-> WithoutText(result.payload),
     score |-> result.score]

MapSeq(s, Op(_)) == [i \in 1..Len(s) |-> Op(s[i])]

\* faulty variant: the essence search is not capped
EssenceLimit_Uncapped(limit) == limit

\* limit=min(limit, 3)
EssenceLimit(limit) == Min(limit, ESSENCE_CAP)

\* limit=limit
ProjectLimit(limit) == limit

\* faulty variant: only the vector store is checked
QueryLogosUninitialized_StoreOnly(vs, pm) == ~vs

\* if not _vector_store or not _prompt_manager
QueryLogosUninitialized(vs, pm) == ~vs \/ ~pm

\* the except branch of query_logos: the constitution is fetched once more
QueryLogosFailed(cfail) ==
    IF cfail
    THEN [Resp("query_logos") EXCEPT !.status = "raised", !.ret = "raised"]
    ELSE [Resp("query_logos") EXCEPT
             !.ret = "error", !.error = "Query failed",
             !.constitution = ConstitutionText,
             !.metadata = {"query", "error"}]

\* query_logos.  f1 and f2 are the failures of the two searches, c1 and c2
\* tell whether the first and the second get_constitution call raise.
query_logos(limit, f1, f2, c1, c2, found1, found2) ==
    IF QueryLogosUninitialized(qt_vector_store, qt_prompt_manager)
    THEN [resp |-> [Resp("query_logos") EXCEPT
                       !.ret = "sentinel",
                       !.error = "Logos MCP server not properly initialized"],
          calls |-> <<>>]
    ELSE LET s1 == search("logos_essence", EssenceLimit(limit), f1, found1)
             s2 == search("project_knowledge", ProjectLimit(limit), f2, found2)
             getc(bad) == <<RaiseIf(bad, Call("prompt_manager",
                                              "get_constitution", "", 0))>>
         IN  IF s1.raised
             THEN [resp |-> QueryLogosFailed(c1), calls |-> s1.calls \o getc(c1)]
             ELSE IF s2.raised
             THEN [resp |-> QueryLogosFailed(c1),
                   calls |-> s1.calls \o s2.calls \o getc(c1)]
             ELSE IF c1
             THEN [resp |-> QueryLogosFailed(c2),
                   calls |-> s1.calls \o s2.calls \o getc(TRUE) \o getc(c2)]
             ELSE [resp |-> [Resp("query_logos") EXCEPT
                       !.ret = "bundle",
                       !.constitution = ConstitutionText,
                       !.personality_memories = MapSeq(s1.results, BundleEntry),
                       !.project_knowledge = MapSeq(s2.results, BundleEntry),
                       !.metadata = {"query", "timestamp",
                                     "personality_results_count",
                                     "project_results_count", "total_results"},
                       !.counts = <<Len(s1.results), Len(s2.results),
                                    Len(s1.results) + Len(s2.results)>>],
                   calls |-> s1.calls \o s2.calls \o getc(FALSE)]

\* results.sort(key=lambda x: x["score"], reverse=True): a stable sort, the
\* entries of equal score keep their order
RECURSIVE InsertByScore(_, _)
InsertByScore(sorted, x) ==
    IF sorted = <<>> THEN <<x>>
    ELSE IF Head(sorted).score >= x.score
         THEN <<Head(sorted)>> \o InsertByScore(Tail(sorted), x)
         ELSE <<x>> \o sorted

\* faulty variant: the merged list is returned as collected
SortByScore_Unsorted(s) == s

RECURSIVE SortByScore(_)
SortByScore(s) ==
    IF s = <<>> THEN <<>>
    ELSE InsertByScore(SortByScore(SubSeq(s, 1, Len(s) - 1)), s[Len(s)])

Selectors == {"essence", "project", "both", "all"}

\* faulty variant: the whole limit goes to each search
SelectorLimit_Full(collection, own, limit) == limit

\* limit if collection == "essence" else limit//2 (and likewise for project)
SelectorLimit(collection, own, limit) ==
    IF collection = own THEN limit ELSE limit \div 2

\* get_memory_context
get_memory_context(collection, limit, f1, f2, found1, found2) ==
    IF ~qt_vector_store
    THEN [resp |-> [Resp("get_memory_context") EXCEPT
                       !.ret = "sentinel",
                       !.error = "Vector store not available"],
          calls |-> <<>>]
    ELSE LET failed == [Resp("get_memory_context") EXCEPT
                           !.ret = "error", !.error = "Memory search failed",
                           !.metadata = {"query", "error"}]
             doE == collection \in {"essence", "both"}
             doP == collection \in {"project", "both"}
             s1 == search("logos_essence",
                          SelectorLimit(collection, "essence", limit), f1, found1)
             s2 == search("project_knowledge",
                          SelectorLimit(collection, "project", limit), f2, found2)
             r1 == IF doE THEN MapSeq(s1.results,
                                      LAMBDA r : MemoryEntry("logos_essence", r))
                   ELSE <<>>
             r2 == IF doP THEN MapSeq(s2.results,
                                      LAMBDA r : MemoryEntry("project_knowledge", r))
                   ELSE <<>>
             c1 == IF doE THEN s1.calls ELSE <<>>
             c2 == IF doP THEN s2.calls ELSE <<>>
         IN  IF doE /\ s1.raised
             THEN [resp |-> failed, calls |-> c1]
             ELSE IF doP /\ s2.raised
             THEN [resp |-> failed, calls |-> c1 \o c2]
             ELSE [resp |-> [Resp("get_memory_context") EXCEPT
                       !.ret = "memories",
                       !.memories = SortByScore(r1 \o r2),
                       !.metadata = {"query", "collection", "limit",
                                     "results_count", "timestamp"},
                       !.counts = <<Len(r1 \o r2)>>],
                   calls |-> c1 \o c2]

(***************************************************************************)
(* Memory tools (tools/memory_tools.py).                                   *)
(***************************************************************************)
\* letter_text.split('\n')
RECURSIVE SplitLines(_)
SplitLines(s) ==
    IF \A i \in 1..Len(s) : s[i] # "\n" THEN <<s>>
    ELSE LET k == CHOOSE i \in 1..Len(s) :
                      s[i] = "\n" /\ \A j \in 1..(i - 1) : s[j] # "\n"
         IN  <<SubSeq(s, 1, k - 1)>> \o SplitLines(SubSeq(s, k + 1, Len(s)))

\* return letter_text[:100] + "..."
FALLBACK_LEN == 100

\* _extract_summary_from_letter: the first line that starts with 'Summary:',
\* every 'Summary:' removed from it, stripped
extract_summary_from_letter(text) ==
    LET lines == SplitLines(text)
        hits == {i \in 1..Len(lines) :
                    lines[i] # <<>> /\ Head(lines[i]) = "Summary:"}
    IN  IF hits # {}
        THEN LET k == CHOOSE i \in hits : \A j \in hits : i <= j
             IN  Strip(SelectSeq(lines[k], LAMBDA t : t # "Summary:"))
        ELSE Take(text, FALLBACK_LEN) \o <<"...">>

\* one entry of "memories" in retrieve_recent_memories / _by_creator
LetterEntry(result) ==
    [interaction_summary |->
         extract_summary_from_letter(DictGet(result.payload, "text", <<>>)),
     emotional_context |-> DictGet(result.payload, "emotional_context", <<"unknown">>),
     lesson_learned |-> DictGet(result.payload, "lesson_learned", <<>>),
     creator |-> DictGet(result.payload, "creator", <<"unknown">>),
     timestamp |-> DictGet(result.payload, "timestamp", <<"unknown">>),
     letter_id |-> DictGet(result.payload, "letter_id", <<"unknown">>),
     score |-> result.score]

\* if not _letter_protocol
MemoryToolsUninitialized(lp) == lp = "none"

MemorySentinel(op) ==
    [Resp(op) EXCEPT !.ret = "sentinel",
                     !.error = "Memory tools not properly initialized"]

\* create_letter_for_future_self
create_letter_for_future_self(summary, context, lesson, creator, f) ==
    IF MemoryToolsUninitialized(mt_letter_protocol)
    THEN [resp |-> MemorySentinel("create_letter_for_future_self"),
          calls |-> <<>>, new |-> {}, ids |-> 0, made |-> 0]
    ELSE IF Strip(summary) = <<>>
    THEN [resp |-> [Resp("create_letter_for_future_self") EXCEPT
                       !.ret = "error",
                       !.error = "Interaction summary cannot be empty"],
          calls |-> <<>>, new |-> {}, ids |-> 0, made |-> 0]
    ELSE IF Strip(context) = <<>>
    THEN [resp |-> [Resp("create_letter_for_future_self") EXCEPT
                       !.ret = "error",
                       !.error = "Emotional context cannot be empty"],
          calls |-> <<>>, new |-> {}, ids |-> 0, made |-> 0]
    ELSE LET letter == Letter(Strip(summary), Strip(context),
                              IF lesson # <<>> THEN Strip(lesson) ELSE <<>>,
                              IF creator # <<>> THEN Strip(creator) ELSE <<"unknown">>,
                              <<ToString(clock + 1)>>, Uuid(nextId + 1))
             r == store_letter(letter, mt_letter_protocol = "attached", f,
                               nextId + 1)
         IN  [resp |-> IF r.ret = "True"
                       THEN [Resp("create_letter_for_future_self") EXCEPT
                                !.ret = "success", !.letters = <<letter>>]
                       ELSE [Resp("create_letter_for_future_self") EXCEPT
                                !.ret = "error",
                                !.error = "Failed to store letter in memory"],
              calls |-> r.calls, new |-> r.new, ids |-> 1 + r.ids, made |-> 1]

(***************************************************************************)
(* File tools (tools/file_tools.py).  The document processor is a          *)
(* collaborator: a call to it returns or raises.                           *)
(***************************************************************************)
ProcessorOutcomes ==
    {"ok", "FileNotFoundError", "DocumentProcessorError", "Exception"}

\* base64.b64decode raises on the second
Base64Inputs == {"dGVzdA==", "invalid-base64!"}

Base64Decodes(content) == content = "dGVzdA=="

\* if not _file_processor or not _vector_store
FileToolsUninitialized(fp, vs) == ~fp \/ ~vs

FileSentinel(op) ==
    [Resp(op) EXCEPT !.ret = "sentinel",
                     !.error = "File management tools not properly initialized"]

\* add_file, list_files, get_file_info, reindex_file: the initialization check, then one
\* call to the document processor inside try/except
file_tool(op, method, outcome) ==
    IF FileToolsUninitialized(ft_file_processor, ft_vector_store)
    THEN [resp |-> FileSentinel(op), calls |-> <<>>]
    ELSE [resp |-> IF outcome = "ok"
                   THEN [Resp(op) EXCEPT !.ret = "ok"]
                   ELSE [Resp(op) EXCEPT !.ret = "error", !.error = outcome],
          calls |-> <<RaiseIf(outcome # "ok", Call("processor", method, "", 0))>>]

\* add_file_base64: the content is decoded before the initialization check
add_file_base64(content, outcome) ==
    IF ~Base64Decodes(content)
    THEN [resp |-> [Resp("add_file_base64") EXCEPT
                       !.ret = "error",
                       !.error = "Error: Invalid base64 content"],
          calls |-> <<>>]
    ELSE file_tool("add_file_base64", "process_document", outcome)

\* limit=1000  # Get all chunks for this file
DELETE_SEARCH_LIMIT == 1000

\* delete_file: searches for the chunks and reports them; nothing is deleted
delete_file(c, f, found) ==
    IF ~ft_vector_store
    THEN [resp |-> FileSentinel("delete_file"), calls |-> <<>>]
    ELSE LET r == search(c, DELETE_SEARCH_LIMIT, f, found)
         IN  [resp |-> IF r.raised
                       THEN [Resp("delete_file") EXCEPT
                                !.ret = "error", !.error = "Error deleting file"]
                       ELSE IF r.results = <<>>
                       THEN [Resp("delete_file") EXCEPT !.ret = "not_found"]
                       ELSE [Resp("delete_file") EXCEPT
                                !.ret = "delete_requested",
                                !.memories = r.results],
              calls |-> r.calls]

(***************************************************************************)
(* Prompt manager (logos-core/src/personality/prompt_manager.py).  The     *)
(* fixed blocks of the prompt are one token each.                          *)
(***************************************************************************)
\* context entries
Entries == {<<"A">>, <<"B">>}

ContextLists == SeqsUpTo(Entries, MaxBatch)

\* for memory in context: system_prompt += f"<bullet> {memory}\n", the bullet written "* "
RECURSIVE Bullets(_)
Bullets(context) ==
    IF context = <<>> THEN <<>>
    ELSE <<"* ">> \o Head(context) \o <<"\n">> \o Bullets(Tail(context))

\* if context_chunks and not technical_context: technical_context = context_chunks
TechnicalContext(technical_context, context_chunks) ==
    IF context_chunks # <<>> /\ technical_context = <<>>
    THEN context_chunks
    ELSE technical_context

\* faulty variant: a section is emitted for an empty list too
HasContext_Always(context) == TRUE

\* context and len(context) > 0
HasContext(context) == context # <<>>

\* LogosPromptManager.build_system_prompt
build_system_prompt(personality_context, technical_context, context_chunks) ==
    LET technical == TechnicalContext(technical_context, context_chunks)
        has_personality == HasContext(personality_context)
        has_technical == HasContext(technical)
    IN  <<"LOGOS CONSTITUTION:", "\n">> \o ConstitutionText \o <<"\n", "\n">>
        \o <<"OPERATIONAL GUIDELINES:", "\n", "\n">>
        \o (IF has_personality \/ has_technical
            THEN (IF has_personality
                  THEN <<"PERSONALITY CONTEXT (Memories & Experiences):", "\n">>
                           \o Bullets(personality_context) \o <<"\n">>
                  ELSE <<>>)
                 \o (IF has_technical
                     THEN <<"TECHNICAL CONTEXT (Knowledge & Facts):", "\n">>
                              \o Bullets(technical) \o <<"\n">>
                     ELSE <<>>)
            ELSE <<"NOTICE: No additional context provided.", "\n", "\n">>)
        \o <<"GUIDELINES:", "\n">>

(***************************************************************************)
(* Initial state: the index may already hold any of the collections, left  *)
(* by an earlier run; nothing of this process has been constructed.        *)
(***************************************************************************)
(***************************************************************************)
(* Constitution (personality/constitution.py).  additional_principles is a *)
(* dict, modelled by its items in insertion order.                         *)
(***************************************************************************)
\* names and descriptions a caller passes: empty, blank, padded, plain
PrincipleNames == {<<>>, <<" ">>, <<"A">>, <<" ", "A">>, <<"B">>}

PrincipleTexts == {<<>>, <<" ">>, <<"x">>, <<"y", " ">>}

\* d[name] = text: the value of a key the dict has is replaced where it
\* stands, a new key goes to the end
DictSet(d, name, text) ==
    IF \E i \in 1..Len(d) : d[i].name = name
    THEN [i \in 1..Len(d) |-> IF d[i].name = name
                              THEN [name |-> name, text |-> text]
                              ELSE d[i]]
    ELSE Append(d, [name |-> name, text |-> text])

\* LogosConstitution.add_principle
add_principle(d, name, description) ==
    IF Strip(name) = <<>>
    THEN [raised |-> TRUE, error |-> "Principle name cannot be empty",
          principles |-> d]
    ELSE IF Strip(description) = <<>>
    THEN [raised |-> TRUE, error |-> "Principle description cannot be empty",
          principles |-> d]
    ELSE [raised |-> FALSE, error |-> "",
          principles |-> DictSet(d, Strip(name), Strip(description))]

\* for name, text in additional_principles.items(): one bullet line each,
\* the bullet written "* "
RECURSIVE PrincipleLines(_)
PrincipleLines(d) ==
    IF d = <<>> THEN <<>>
    ELSE <<"* ">> \o Head(d).name \o <<": ">> \o Head(d).text \o <<"\n">>
         \o PrincipleLines(Tail(d))

\* LogosConstitution.get_constitution: the fixed sections are one token each
LogosConstitution_get_constitution(d) ==
    <<"IDENTITY:", "\n", "CORE PRINCIPLES:", "\n", "DEFAULT_PRINCIPLES", "\n">>
    \o PrincipleLines(d)
    \o <<"\n", "RELATIONSHIP DYNAMICS:", "\n", "COMMUNICATION STYLE:", "\n",
         "PHILOSOPHICAL FOUNDATION:">>

(***************************************************************************)
(* Embedder (engine/embedder.py).  TextEmbedding is fastembed's class when *)
(* the import succeeded and the mock class of the module otherwise.        *)
(***************************************************************************)
\* dimensions an embedding model can have: that of all-MiniLM-L6-v2 and
\* another one
Dimensions == {VECTOR_SIZE, VECTOR_SIZE + OtherSize}

\* self.model before __init__ has assigned it
NoModel == [kind |-> "unset", size |-> 0]

\* LogosEmbedder.__init__: `available` is FASTEMBED_AVAILABLE, `named` says
\* that TextEmbedding(model_name=model_name) returns, `fallback` that the
\* TextEmbedding() of the except branch returns; size and fallbackSize are
\* the dimensions of the two models
LogosEmbedder(available, named, fallback, size, fallbackSize) ==
    IF ~available
    THEN [raised |-> FALSE, model |-> [kind |-> "mock", size |-> VECTOR_SIZE],
          calls |-> <<Call("mock", "TextEmbedding", "", 0)>>]
    ELSE IF named
    THEN [raised |-> FALSE, model |-> [kind |-> "named", size |-> size],
          calls |-> <<Call("fastembed", "TextEmbedding", "model_name", 0)>>]
    ELSE IF fallback
    THEN [raised |-> FALSE, model |-> [kind |-> "default", size |-> fallbackSize],
          calls |-> <<Raise(Call("fastembed", "TextEmbedding", "model_name", 0)),
                      Call("fastembed", "TextEmbedding", "", 0)>>]
    ELSE [raised |-> TRUE, model |-> NoModel,
          calls |-> <<Raise(Call("fastembed", "TextEmbedding", "model_name", 0)),
                      Raise(Call("fastembed", "TextEmbedding", "", 0))>>]

\* embed_text: list(self.model.embed(text)), one vector per text, given here
\* by its length; the mock's embed cannot raise, fastembed's can (`bad`)
embed_text(m, texts, bad) ==
    IF bad /\ m.kind # "mock"
    THEN [raised |-> TRUE, vectors |-> <<>>]
    ELSE [raised |-> FALSE, vectors |-> [i \in 1..Len(texts) |-> m.size]]

\* vector_size: len(self.embed_text("test")[0]), 384 if that raises
vector_size(m, bad) ==
    LET r == embed_text(m, <<<<"test">>>>, bad)
    IN  IF r.raised THEN VECTOR_SIZE ELSE r.vectors[1]

\* two callers working on the same index at the same time
Callers == {1, 2}

\* no _ensure_collections call in progress: pc is the position of the call,
\* existing its existing_names, i the index of its loop in COLLECTIONS, error
\* what made it raise
NotEnsuring == [pc |-> "idle", existing |-> {}, i |-> 1, error |-> ""]

\* no upsert call in progress: pc is the position of the call, points the
\* PointStructs it has built, overlapped whether the other caller's upsert
\* was under way when this one reached the index
NotUpserting == [pc |-> "idle", coll |-> "", points |-> {}, overlapped |-> FALSE]

\* everything but the index, before anything has run
Fresh ==
    /\ points = {}
    /\ nextId = 0
    /\ clock = 0
    /\ store = FALSE
    /\ qt_vector_store = FALSE
    /\ qt_prompt_manager = FALSE
    /\ ft_file_processor = FALSE
    /\ ft_vector_store = FALSE
    /\ mt_letter_protocol = "none"
    /\ calls = <<>>
    /\ last = NoResp
    /\ model = NoModel
    /\ additional_principles = <<>>
    /\ ensuring = [p \in Callers |-> NotEnsuring]
    /\ upserting = [p \in Callers |-> NotUpserting]
    /\ main_pc = "start"

\* the index holds any of the collections, made with the dimension of the
\* default embedding model
Init ==
    /\ index \in UNION {[S -> {VECTOR_SIZE}] : S \in SUBSET CollectionNames}
    /\ Fresh

\* the index holds any of the collections, each made with the dimension of
\* whatever embedder the deployment that created it had
AnyIndexInit ==
    /\ index \in UNION {[S -> Dimensions] : S \in SUBSET CollectionNames}
    /\ Fresh

(***************************************************************************)
(* Operations run one at a time: `calls` and `last` describe the operation *)
(* that has just finished until its caller has taken the result.           *)
(***************************************************************************)
Idle == last.op = "none"

Return ==
    /\ ~Idle
    /\ calls' = <<>>
    /\ last' = NoResp
    /\ UNCHANGED <<procVars, index, points, nextId, clock, store, toolVars>>

(***************************************************************************)
(* Store operations, called directly.                                      *)
(***************************************************************************)
\* LogosVectorStore.__init__: the object exists only if the call returns
Construct ==
    /\ Idle
    /\ \E f \in 0..(Len(COLLECTIONS) + 1) :
        LET r == ensure_collections(index, f)
        IN  /\ index' = r.index
            /\ calls' = r.calls
            /\ store' = (store \/ ~r.raised)
            /\ last' = [Resp("construct") EXCEPT
                           !.status = IF r.raised THEN "raised" ELSE "ok"]
            /\ UNCHANGED <<procVars, points, nextId, clock, toolVars>>

UpsertOf(colls, batches, metas) ==
    /\ Idle
    /\ store
    /\ \E c \in colls, texts \in batches, metadatas \in metas, f \in 0..2 :
        LET r == upsert(c, texts, metadatas, f, nextId)
        IN  /\ nextId + Len(texts) <= MaxPoints
            /\ points' = IndexUpsert(r.new)
            /\ nextId' = nextId + r.ids
            /\ calls' = r.calls
            /\ last' = [Resp("upsert") EXCEPT
                           !.status = IF r.raised THEN "raised" ELSE "ok",
                           !.coll = c, !.limit = Len(texts),
                           !.texts = texts, !.metadatas = metadatas]
            /\ UNCHANGED <<procVars, index, clock, store, toolVars>>

\* direct upserts go to the collections letters do not write to
Upsert ==
    UpsertOf({"project_knowledge", "canon"}, SeqsUpTo(Texts, MaxBatch),
             MetadataLists)

Search ==
    /\ Idle
    /\ store
    /\ \E c \in CollectionNames, limit \in StoreLimits, f \in 0..2 :
       \E found \in SearchOutcomes(c, limit) :
        LET r == search(c, limit, f, found)
        IN  /\ calls' = r.calls
            /\ last' = [Resp("search") EXCEPT
                           !.status = IF r.raised THEN "raised" ELSE "ok",
                           !.coll = c, !.limit = limit,
                           !.memories = r.results]
            /\ UNCHANGED <<procVars, index, points, nextId, clock, store, toolVars>>

\* delete_points: a pass-through; f = 1 is client.delete raising
DeletePoints ==
    /\ Idle
    /\ store
    /\ \E c \in CollectionNames, ids \in SUBSET {Uuid(i) : i \in 1..MaxPoints},
          f \in 0..1 :
        LET bad == f = 1 \/ c \notin DOMAIN index
        IN  /\ points' = IF bad THEN points ELSE points \ Deleted(c, ids)
            /\ calls' = <<RaiseIf(bad, Call("index", "delete", c, Cardinality(ids)))>>
            /\ last' = [Resp("delete_points") EXCEPT
                           !.status = IF bad THEN "raised" ELSE "ok",
                           !.coll = c]
            /\ UNCHANGED <<procVars, index, nextId, clock, store, toolVars>>

\* faulty variant: the collection is dropped instead of emptied
ClearCollection_DropsCollection ==
    /\ Idle
    /\ store
    /\ \E c \in CollectionNames :
        /\ c \in DOMAIN index
        /\ index' = [d \in (DOMAIN index) \ {c} |-> index[d]]
        /\ points' = points \ Cleared(c)
        /\ calls' = <<Call("index", "delete_collection", c, 0)>>
        /\ last' = [Resp("clear_collection") EXCEPT !.coll = c]
        /\ UNCHANGED <<procVars, nextId, clock, store, toolVars>>

\* clear_collection: delete with a match-all filter, the collection stays
ClearCollection ==
    /\ Idle
    /\ store
    /\ \E c \in CollectionNames, f \in 0..1 :
        LET bad == f = 1 \/ c \notin DOMAIN index
        IN  /\ points' = IF bad THEN points ELSE points \ Cleared(c)
            /\ calls' = <<RaiseIf(bad, Call("index", "delete", c, 0))>>
            /\ last' = [Resp("clear_collection") EXCEPT
                           !.status = IF bad THEN "raised" ELSE "ok",
                           !.coll = c]
            /\ UNCHANGED <<procVars, index, nextId, clock, store, toolVars>>

GetCollectionInfo ==
    /\ Idle
    /\ store
    /\ \E c \in CollectionNames, f \in 0..1 :
        LET r == get_collection_info(c, f)
        IN  /\ calls' = <<RaiseIf(r.error, Call("index", "get_collection", c, 0))>>
            /\ last' = [Resp("get_collection_info") EXCEPT
                           !.status = IF r.raised THEN "raised" ELSE "ok",
                           !.ret = r.status, !.coll = r.name,
                           !.metadata = r.keys,
                           !.limit = r.points_count,
                           !.error = IF r.error THEN "error" ELSE ""]
            /\ UNCHANGED <<procVars, index, points, nextId, clock, store, toolVars>>

\* list_collections: f = 1 is client.get_collections raising
ListCollections ==
    /\ Idle
    /\ store
    /\ \E f \in 0..1 :
        /\ calls' = <<RaiseIf(f = 1, Call("index", "get_collections", "", 0))>>
        /\ last' = [Resp("list_collections") EXCEPT
                       !.status = IF f = 1 THEN "raised" ELSE "ok",
                       !.metadata = IF f = 1 THEN {} ELSE DOMAIN index]
        /\ UNCHANGED <<procVars, index, points, nextId, clock, store, toolVars>>

(***************************************************************************)
(* Letter protocol operations.  A protocol object is attached to the store *)
(* or built without one (LetterProtocol(vector_store=None)).               *)
(***************************************************************************)
Protocols == {FALSE} \cup (IF store THEN {TRUE} ELSE {})

StoreLetter ==
    /\ Idle
    /\ \E letter \in Letters, attached \in Protocols, f \in 0..2 :
        LET r == store_letter(letter, attached, f, nextId)
        IN  /\ nextId + 1 <= MaxPoints
            /\ points' = IndexUpsert(r.new)
            /\ nextId' = nextId + r.ids
            /\ calls' = r.calls
            /\ last' = [Resp("store_letter") EXCEPT
                           !.status = IF r.raised THEN "raised" ELSE "ok",
                           !.ret = r.ret,
                           !.arg = IF attached THEN "attached" ELSE "detached",
                           !.letters = <<letter>>]
            /\ UNCHANGED <<procVars, index, clock, store, toolVars>>

\* create_and_store_letter: create_letter draws the timestamp and the id
CreateAndStoreLetter ==
    /\ Idle
    /\ \E s \in Summaries \cup {LongText("s")}, c \in Contexts,
          l \in Lessons \cup {LongText("l")}, u \in Creators,
          attached \in Protocols, f \in 0..2 :
        LET letter == Letter(s, c, l, u, <<ToString(clock + 1)>>, Uuid(nextId + 1))
            r == store_letter(letter, attached, f, nextId + 1)
        IN  /\ nextId + 2 <= MaxPoints
            /\ points' = IndexUpsert(r.new)
            /\ nextId' = nextId + 1 + r.ids
            /\ clock' = clock + 1
            /\ calls' = r.calls
            /\ last' = [Resp("create_and_store_letter") EXCEPT
                           !.status = IF r.raised THEN "raised" ELSE "ok",
                           !.ret = r.ret,
                           !.arg = IF attached THEN "attached" ELSE "detached",
                           !.letters = <<letter>>]
            /\ UNCHANGED <<procVars, index, store, toolVars>>

StoreLettersBulk ==
    /\ Idle
    /\ \E letters \in SeqsUpTo(BulkLetters, MaxBatch), attached \in Protocols,
          f \in 0..2 :
        LET r == store_letters_bulk(letters, attached, f, nextId)
        IN  /\ nextId + Len(letters) <= MaxPoints
            /\ points' = IndexUpsert(r.new)
            /\ nextId' = nextId + r.ids
            /\ calls' = r.calls
            /\ last' = [Resp("store_letters_bulk") EXCEPT
                           !.status = IF r.raised THEN "raised" ELSE "ok",
                           !.ret = r.ret,
                           !.arg = IF attached THEN "attached" ELSE "detached",
                           !.letters = letters]
            /\ UNCHANGED <<procVars, index, clock, store, toolVars>>

GetRecentLetters ==
    /\ Idle
    /\ \E limit \in StoreLimits, attached \in Protocols, f \in 0..2 :
       \E found \in SearchOutcomes("logos_essence", limit) :
        LET r == get_recent_letters(limit, attached, f, found)
        IN  /\ calls' = r.calls
            /\ last' = [Resp("get_recent_letters") EXCEPT
                           !.limit = limit,
                           !.arg = IF attached THEN "attached" ELSE "detached",
                           !.memories = r.results]
            /\ UNCHANGED <<procVars, index, points, nextId, clock, store, toolVars>>

GetStatistics ==
    /\ Idle
    /\ \E attached \in Protocols, f \in 0..1 :
        LET r == get_statistics(attached, f)
        IN  /\ calls' = r.calls
            /\ last' = [Resp("get_statistics") EXCEPT
                           !.ret = r.collection_status,
                           !.limit = r.total_letters,
                           !.arg = IF attached THEN "attached" ELSE "detached"]
            /\ UNCHANGED <<procVars, index, points, nextId, clock, store, toolVars>>

LetterNext ==
    \/ StoreLetter
    \/ CreateAndStoreLetter
    \/ StoreLettersBulk
    \/ GetRecentLetters
    \/ GetStatistics

(***************************************************************************)
(* Query tools.                                                            *)
(***************************************************************************)
\* initialize_tools(vector_store, prompt_manager); None is FALSE
InitializeTools ==
    /\ Idle
    /\ \E vs \in {FALSE} \cup (IF store THEN {TRUE} ELSE {}), pm \in BOOLEAN :
        /\ qt_vector_store' = vs
        /\ qt_prompt_manager' = pm
    /\ UNCHANGED <<procVars, index, points, nextId, clock, store, ft_file_processor,
                   ft_vector_store, mt_letter_protocol, calls, last>>

QueryLogos ==
    /\ Idle
    /\ \E limit \in Limits, f1 \in 0..2, f2 \in 0..2, c1 \in BOOLEAN, c2 \in BOOLEAN :
       \E found1 \in SearchOutcomes("logos_essence", EssenceLimit(limit)),
          found2 \in SearchOutcomes("project_knowledge", ProjectLimit(limit)) :
        LET r == query_logos(limit, f1, f2, c1, c2, found1, found2)
        IN  /\ calls' = r.calls
            /\ last' = [r.resp EXCEPT !.limit = limit]
            /\ UNCHANGED <<procVars, index, points, nextId, clock, store, toolVars>>

GetMemoryContext ==
    /\ Idle
    /\ \E collection \in Selectors, limit \in Limits, f1 \in 0..2, f2 \in 0..2 :
       \E found1 \in SearchOutcomes("logos_essence",
                        SelectorLimit(collection, "essence", limit)),
          found2 \in SearchOutcomes("project_knowledge",
                        SelectorLimit(collection, "project", limit)) :
        LET r == get_memory_context(collection, limit, f1, f2, found1, found2)
        IN  /\ calls' = r.calls
            /\ last' = [r.resp EXCEPT !.limit = limit, !.coll = collection]
            /\ UNCHANGED <<procVars, index, points, nextId, clock, store, toolVars>>

\* the get_constitution tool; c1: the prompt manager raises
GetConstitution ==
    /\ Idle
    /\ \E c1 \in BOOLEAN :
        IF ~qt_prompt_manager
        THEN /\ calls' = <<>>
             /\ last' = [Resp("get_constitution") EXCEPT
                            !.ret = "sentinel",
                            !.error = "Error: Logos constitution not available"]
        ELSE /\ calls' = <<RaiseIf(c1, Call("prompt_manager", "get_constitution",
                                            "", 0))>>
             /\ last' = IF c1
                        THEN [Resp("get_constitution") EXCEPT
                                 !.ret = "error",
                                 !.error = "Error retrieving constitution"]
                        ELSE [Resp("get_constitution") EXCEPT
                                 !.ret = "text",
                                 !.constitution = ConstitutionText]
    /\ UNCHANGED <<procVars, index, points, nextId, clock, store, toolVars>>

\* get_collection_stats: a fixed description of the three collections
GetCollectionStats ==
    /\ Idle
    /\ calls' = <<>>
    /\ last' = IF ~qt_vector_store
               THEN [Resp("get_collection_stats") EXCEPT
                        !.ret = "sentinel",
                        !.error = "Vector store not available"]
               ELSE [Resp("get_collection_stats") EXCEPT
                        !.ret = "stats", !.metadata = CollectionNames]
    /\ UNCHANGED <<procVars, index, points, nextId, clock, store, toolVars>>

\* get_version needs nothing that initialize_tools sets
GetVersion ==
    /\ Idle
    /\ calls' = <<>>
    /\ last' = [Resp("get_version") EXCEPT !.ret = "version"]
    /\ UNCHANGED <<procVars, index, points, nextId, clock, store, toolVars>>

QueryNext ==
    \/ InitializeTools
    \/ QueryLogos
    \/ GetMemoryContext
    \/ GetConstitution
    \/ GetCollectionStats
    \/ GetVersion

(***************************************************************************)
(* Memory tools.                                                           *)
(***************************************************************************)
\* initialize_memory_tools(letter_protocol)
InitializeMemoryTools ==
    /\ Idle
    /\ mt_letter_protocol' \in
           {"none", "detached"} \cup (IF store THEN {"attached"} ELSE {})
    /\ UNCHANGED <<procVars, index, points, nextId, clock, store, qt_vector_store,
                   qt_prompt_manager, ft_file_processor, ft_vector_store,
                   calls, last>>

\* the create_letter_for_future_self tool, while at most maxIds uuid4 values
\* have been handed out (a letter takes two: its letter_id and its point id)
CreateLetterWithin(maxIds) ==
    /\ Idle
    /\ \E s \in Summaries, c \in Contexts, l \in Lessons,
          u \in Creators \cup {<<>>}, f \in 0..2 :
        LET r == create_letter_for_future_self(s, c, l, u, f)
        IN  /\ nextId + 2 <= maxIds
            /\ points' = IndexUpsert(r.new)
            /\ nextId' = nextId + r.ids
            /\ clock' = clock + r.made
            /\ calls' = r.calls
            /\ last' = r.resp
            /\ UNCHANGED <<procVars, index, store, toolVars>>

CreateLetterForFutureSelf == CreateLetterWithin(MaxPoints)

GetMemoryStatistics ==
    /\ Idle
    /\ \E f \in 0..1 :
        IF MemoryToolsUninitialized(mt_letter_protocol)
        THEN /\ calls' = <<>>
             /\ last' = MemorySentinel("get_memory_statistics")
        ELSE LET r == get_statistics(mt_letter_protocol = "attached", f)
             IN  /\ calls' = r.calls
                 /\ last' = [Resp("get_memory_statistics") EXCEPT
                                !.ret = r.collection_status,
                                !.limit = r.total_letters]
    /\ UNCHANGED <<procVars, index, points, nextId, clock, store, toolVars>>

RetrieveRecentMemories ==
    /\ Idle
    /\ \E limit \in Limits, f \in 0..2 :
       \E found \in SearchOutcomes("logos_essence", limit) :
        IF MemoryToolsUninitialized(mt_letter_protocol)
        THEN /\ calls' = <<>>
             /\ last' = MemorySentinel("retrieve_recent_memories")
        ELSE LET r == get_recent_letters(limit, mt_letter_protocol = "attached",
                                         f, found)
             IN  /\ calls' = r.calls
                 /\ last' = [Resp("retrieve_recent_memories") EXCEPT
                                !.ret = "memories", !.limit = limit,
                                !.memories = MapSeq(r.results, LetterEntry),
                                !.counts = <<Len(r.results)>>]
    /\ UNCHANGED <<procVars, index, points, nextId, clock, store, toolVars>>

\* retrieve_memories_by_creator: get_letters_by_creator is the same search
\* with the query "future_letter creator:{creator}"
RetrieveMemoriesByCreator ==
    /\ Idle
    /\ \E creator \in Creators \cup {<<>>, <<" ">>}, limit \in Limits, f \in 0..2 :
       \E found \in SearchOutcomes("logos_essence", limit) :
        IF MemoryToolsUninitialized(mt_letter_protocol)
        THEN /\ calls' = <<>>
             /\ last' = MemorySentinel("retrieve_memories_by_creator")
        ELSE IF Strip(creator) = <<>>
        THEN /\ calls' = <<>>
             /\ last' = [Resp("retrieve_memories_by_creator") EXCEPT
                            !.ret = "error", !.error = "Creator cannot be empty"]
        ELSE LET r == get_recent_letters(limit, mt_letter_protocol = "attached",
                                         f, found)
             IN  /\ calls' = r.calls
                 /\ last' = [Resp("retrieve_memories_by_creator") EXCEPT
                                !.ret = "memories", !.limit = limit,
                                !.memories = MapSeq(r.results, LetterEntry),
                                !.counts = <<Len(r.results)>>]
    /\ UNCHANGED <<procVars, index, points, nextId, clock, store, toolVars>>

MemoryNext ==
    \/ InitializeMemoryTools
    \/ CreateLetterForFutureSelf
    \/ GetMemoryStatistics
    \/ RetrieveRecentMemories
    \/ RetrieveMemoriesByCreator

(***************************************************************************)
(* File tools.                                                             *)
(***************************************************************************)
\* initialize_file_tools(document_processor, vector_store)
InitializeFileTools ==
    /\ Idle
    /\ \E fp \in BOOLEAN, vs \in {FALSE} \cup (IF store THEN {TRUE} ELSE {}) :
        /\ ft_file_processor' = fp
        /\ ft_vector_store' = vs
    /\ UNCHANGED <<procVars, index, points, nextId, clock, store, qt_vector_store,
                   qt_prompt_manager, mt_letter_protocol, calls, last>>

FileTool(op, method) ==
    /\ Idle
    /\ \E outcome \in ProcessorOutcomes :
        LET r == file_tool(op, method, outcome)
        IN  /\ calls' = r.calls
            /\ last' = r.resp
    /\ UNCHANGED <<procVars, index, points, nextId, clock, store, toolVars>>

AddFile == FileTool("add_file", "process_file_from_path")

ListFiles == FileTool("list_files", "list_processed_documents")

GetFileInfo == FileTool("get_file_info", "get_document_info")

ReindexFile == FileTool("reindex_file", "process_file_from_path")

AddFileBase64 ==
    /\ Idle
    /\ \E content \in Base64Inputs, outcome \in ProcessorOutcomes :
        LET r == add_file_base64(content, outcome)
        IN  /\ calls' = r.calls
            /\ last' = [r.resp EXCEPT !.arg = content]
    /\ UNCHANGED <<procVars, index, points, nextId, clock, store, toolVars>>

DeleteFile ==
    /\ Idle
    /\ \E c \in CollectionNames, f \in 0..2 :
       \E found \in SearchOutcomes(c, DELETE_SEARCH_LIMIT) :
        LET r == delete_file(c, f, found)
        IN  /\ calls' = r.calls
            /\ last' = [r.resp EXCEPT !.coll = c]
    /\ UNCHANGED <<procVars, index, points, nextId, clock, store, toolVars>>

\* get_supported_formats checks the processor alone
GetSupportedFormats ==
    /\ Idle
    /\ \E outcome \in {"ok", "Exception"} :
        IF ~ft_file_processor
        THEN /\ calls' = <<>>
             /\ last' = FileSentinel("get_supported_formats")
        ELSE /\ calls' = <<RaiseIf(outcome # "ok",
                                    Call("processor", "get_supported_formats", "", 0))>>
             /\ last' = IF outcome = "ok"
                        THEN [Resp("get_supported_formats") EXCEPT !.ret = "ok"]
                        ELSE [Resp("get_supported_formats") EXCEPT
                                 !.ret = "error", !.error = outcome]
    /\ UNCHANGED <<procVars, index, points, nextId, clock, store, toolVars>>

FileNext ==
    \/ InitializeFileTools
    \/ AddFile
    \/ AddFileBase64
    \/ ListFiles
    \/ DeleteFile
    \/ GetFileInfo
    \/ GetSupportedFormats
    \/ ReindexFile

StoreNext ==
    \/ Construct
    \/ Upsert
    \/ Search
    \/ DeletePoints
    \/ ClearCollection
    \/ GetCollectionInfo
    \/ ListCollections

Next == StoreNext \/ LetterNext \/ Return

Spec == Init /\ [][Next]_vars

\* the index is filled through the store, the query tools read it
Populate == UpsertOf({"logos_essence", "project_knowledge"}, {<<t>> : t \in Texts}, {<<>>})

QueryToolsNext == Construct \/ Populate \/ QueryNext \/ Return

QuerySpec == Init /\ [][QueryToolsNext]_vars

\* the server: the store and every tool of the three tool modules
ToolsNext == Construct \/ QueryNext \/ FileNext \/ MemoryNext \/ Return

ToolSpec == Init /\ [][ToolsNext]_vars

\* the prompt manager on its own: it needs no store
BuildSystemPrompt ==
    /\ Idle
    /\ \E personality_context \in ContextLists, technical_context \in ContextLists,
          context_chunks \in ContextLists :
        /\ calls' = <<Call("prompt_manager", "get_constitution", "", 0)>>
        /\ last' = [Resp("build_system_prompt") EXCEPT
                       !.personality_memories = personality_context,
                       !.project_knowledge = technical_context,
                       !.memories = context_chunks,
                       !.prompt = build_system_prompt(personality_context,
                                      technical_context, context_chunks)]
    /\ UNCHANGED <<procVars, index, points, nextId, clock, store, toolVars>>

PromptNext == BuildSystemPrompt \/ Return

PromptSpec == Init /\ [][PromptNext]_vars

\* letters written one after the other and read back: room for two letters
\* at the least
RecentNext ==
    \/ Construct
    \/ InitializeMemoryTools
    \/ CreateLetterWithin(2 * MaxPoints)
    \/ RetrieveRecentMemories
    \/ Return

RecentSpec == Init /\ [][RecentNext]_vars

\* LogosConstitution.add_principle(name, description)
AddPrinciple ==
    /\ Idle
    /\ \E name \in PrincipleNames, description \in PrincipleTexts :
        LET r == add_principle(additional_principles, name, description)
        IN  /\ additional_principles' = r.principles
            /\ calls' = <<>>
            /\ last' = [Resp("add_principle") EXCEPT
                           !.status = IF r.raised THEN "raised" ELSE "ok",
                           !.error = r.error,
                           !.texts = <<name, description>>]
    /\ UNCHANGED <<index, points, nextId, clock, store, toolVars,
                   model, ensuring, upserting, main_pc>>

\* LogosConstitution.get_constitution()
ReadConstitution ==
    /\ Idle
    /\ calls' = <<>>
    /\ last' = [Resp("constitution") EXCEPT
                   !.ret = "text",
                   !.constitution =
                       LogosConstitution_get_constitution(additional_principles)]
    /\ UNCHANGED <<procVars, index, points, nextId, clock, store, toolVars>>

ConstitutionNext == AddPrinciple \/ ReadConstitution \/ Return

ConstitutionSpec == Init /\ [][ConstitutionNext]_vars

\* LogosEmbedder(model_name)
ConstructEmbedder ==
    /\ Idle
    /\ \E available \in BOOLEAN, named \in BOOLEAN, fallback \in BOOLEAN,
          size \in Dimensions, fallbackSize \in Dimensions :
        LET r == LogosEmbedder(available, named, fallback, size, fallbackSize)
        IN  /\ model' = r.model
            /\ calls' = r.calls
            /\ last' = [Resp("LogosEmbedder") EXCEPT
                           !.status = IF r.raised THEN "raised" ELSE "ok",
                           !.arg = r.model.kind]
    /\ UNCHANGED <<index, points, nextId, clock, store, toolVars,
                   additional_principles, ensuring, upserting, main_pc>>

\* embedder.embed_text(texts) on an embedder that was constructed
EmbedText ==
    /\ Idle
    /\ model.kind # "unset"
    /\ \E texts \in SeqsUpTo(Texts, MaxBatch), bad \in BOOLEAN :
        LET r == embed_text(model, texts, bad)
        IN  /\ calls' = <<RaiseIf(r.raised, Call(model.kind, "embed", "", Len(texts)))>>
            /\ last' = [Resp("embed_text") EXCEPT
                           !.status = IF r.raised THEN "raised" ELSE "ok",
                           !.texts = texts,
                           !.counts = r.vectors]
    /\ UNCHANGED <<procVars, index, points, nextId, clock, store, toolVars>>

\* embedder.vector_size on an embedder that was constructed
VectorSize ==
    /\ Idle
    /\ model.kind # "unset"
    /\ \E bad \in BOOLEAN :
        /\ calls' = <<RaiseIf(embed_text(model, <<<<"test">>>>, bad).raised,
                              Call(model.kind, "embed", "", 1))>>
        /\ last' = [Resp("vector_size") EXCEPT !.limit = vector_size(model, bad)]
    /\ UNCHANGED <<procVars, index, points, nextId, clock, store, toolVars>>

EmbedderNext == ConstructEmbedder \/ EmbedText \/ VectorSize \/ Return

EmbedderSpec == Init /\ [][EmbedderNext]_vars

\* the store over an index that earlier deployments have written to
SchemaNext == Construct \/ GetCollectionInfo \/ ListCollections \/ Return

SchemaSpec == AnyIndexInit /\ [][SchemaNext]_vars

(***************************************************************************)
(* Two LogosVectorStore constructions at once on one index: each call to   *)
(* the index is a step of its own.                                         *)
(***************************************************************************)
\* existing_names = {c.name for c in client.get_collections().collections}
ListExisting(p) ==
    /\ ensuring[p].pc = "idle"
    /\ \E bad \in BOOLEAN :
        ensuring' = [ensuring EXCEPT ![p] =
            IF bad
            THEN [@ EXCEPT !.pc = "raised", !.error = "get_collections"]
            ELSE [@ EXCEPT !.pc = "loop", !.existing = ExistingNames(index)]]
    /\ UNCHANGED <<index, points, nextId, clock, store, toolVars, calls, last,
                   model, additional_principles, upserting, main_pc>>

\* one turn of the for loop: a name of existing_names is skipped, any other
\* is created, which the index refuses if it has the collection by now
EnsureOne(p) ==
    /\ ensuring[p].pc = "loop"
    /\ ensuring[p].i <= Len(COLLECTIONS)
    /\ LET c == COLLECTIONS[ensuring[p].i]
       IN  IF ~NeedsCreate(c, ensuring[p].existing)
           THEN /\ ensuring' = [ensuring EXCEPT ![p].i = @ + 1]
                /\ UNCHANGED index
           ELSE IF c \in DOMAIN index
           THEN /\ ensuring' = [ensuring EXCEPT ![p].pc = "raised",
                                                ![p].error = "exists"]
                /\ UNCHANGED index
           ELSE \E bad \in BOOLEAN :
                IF bad
                THEN /\ ensuring' = [ensuring EXCEPT ![p].pc = "raised",
                                                     ![p].error = "create_collection"]
                     /\ UNCHANGED index
                ELSE /\ ensuring' = [ensuring EXCEPT ![p].i = @ + 1]
                     /\ index' = [d \in (DOMAIN index) \cup {c} |->
                                     IF d \in DOMAIN index THEN index[d]
                                     ELSE VECTOR_SIZE]
    /\ UNCHANGED <<points, nextId, clock, store, toolVars, calls, last,
                   model, additional_principles, upserting, main_pc>>

\* the loop is over: __init__ returns and the store exists
EnsureDone(p) ==
    /\ ensuring[p].pc = "loop"
    /\ ensuring[p].i > Len(COLLECTIONS)
    /\ ensuring' = [ensuring EXCEPT ![p].pc = "done"]
    /\ store' = TRUE
    /\ UNCHANGED <<index, points, nextId, clock, toolVars, calls, last,
                   model, additional_principles, upserting, main_pc>>

EnsureNext ==
    \E p \in Callers : ListExisting(p) \/ EnsureOne(p) \/ EnsureDone(p)

EnsureSpec == Init /\ [][EnsureNext]_vars

(***************************************************************************)
(* Two upsert calls at once on one collection.  The call embeds and builds *)
(* its points locally, then hands them to the index in one client.upsert,  *)
(* which the index applies atomically.                                     *)
(***************************************************************************)
\* the collection both callers write to
SharedCollection == "project_knowledge"

\* embed_text and the list of PointStructs: local to the caller
BuildPoints(p) ==
    /\ upserting[p].pc = "idle"
    /\ \E texts \in SeqsUpTo(Texts, MaxBatch), bad \in BOOLEAN :
        IF EmptyBatch(texts)
        THEN /\ upserting' = [upserting EXCEPT ![p].pc = "done",
                                               ![p].coll = SharedCollection]
             /\ UNCHANGED nextId
        ELSE IF bad
        THEN /\ upserting' = [upserting EXCEPT ![p].pc = "raised",
                                               ![p].coll = SharedCollection]
             /\ UNCHANGED nextId
        ELSE /\ upserting' = [upserting EXCEPT
                 ![p].pc = "built",
                 ![p].coll = SharedCollection,
                 ![p].points = PointStructs(SharedCollection, texts, <<>>, nextId)]
             /\ nextId' = nextId + Len(texts)
    /\ UNCHANGED <<index, points, clock, store, toolVars, calls, last,
                   model, additional_principles, ensuring, main_pc>>

\* client.upsert(collection_name, points)
SendPoints(p) ==
    /\ upserting[p].pc = "built"
    /\ \E f \in 0..1 :
        LET bad == f = 1 \/ upserting[p].coll \notin DOMAIN index
        IN  /\ points' = IF bad THEN points ELSE IndexUpsert(upserting[p].points)
            /\ upserting' = [upserting EXCEPT
                   ![p].pc = IF bad THEN "raised" ELSE "done",
                   ![p].overlapped =
                       \E q \in Callers \ {p} : upserting[q].pc = "built"]
    /\ UNCHANGED <<index, nextId, clock, store, toolVars, calls, last,
                   model, additional_principles, ensuring, main_pc>>

ConcurrentUpsertNext == \E p \in Callers : BuildPoints(p) \/ SendPoints(p)

ConcurrentUpsertSpec == Init /\ [][ConcurrentUpsertNext]_vars

(***************************************************************************)
(* Startup (main.py).  main_pc is the step of create_logos_server and main *)
(* that was completed last; every step can raise, and main turns any       *)
(* exception into exit status 1.                                           *)
(***************************************************************************)
\* the steps in the order of the source: get_config, configure_logging, the
\* socket test, LogosVectorStore, the other components, FastMCP, the three
\* initialize_* calls, the registrations (create_logos_server returns), and
\* server.run
StartupOrder ==
    <<"start", "config", "logging", "connected", "store", "components",
      "server", "initialized", "registered", "serving">>

\* faulty variant: the vector store is not constructed
NextStep_SkipsStore(pc) ==
    IF pc = "logging" THEN "store"
    ELSE StartupOrder[(CHOOSE i \in 1..Len(StartupOrder) : StartupOrder[i] = pc) + 1]

\* the step that follows pc when nothing raises
NextStep(pc) ==
    StartupOrder[(CHOOSE i \in 1..Len(StartupOrder) : StartupOrder[i] = pc) + 1]

\* a step that touches neither the index nor the tool modules: it is done,
\* or it raises and main calls sys.exit(1)
StartupStep ==
    /\ main_pc \in {"start", "config", "logging", "store", "components",
                    "initialized", "registered"}
    /\ \E ok \in BOOLEAN : main_pc' = IF ok THEN NextStep(main_pc) ELSE "exit1"
    /\ UNCHANGED <<index, points, nextId, clock, store, toolVars, calls, last,
                   model, additional_principles, ensuring, upserting>>

\* vector_store = LogosVectorStore(host, port)
StartStore ==
    /\ main_pc = "connected"
    /\ \E f \in 0..(Len(COLLECTIONS) + 1) :
        LET r == ensure_collections(index, f)
        IN  /\ index' = r.index
            /\ store' = ~r.raised
            /\ main_pc' = IF r.raised THEN "exit1" ELSE NextStep(main_pc)
    /\ UNCHANGED <<points, nextId, clock, toolVars, calls, last,
                   model, additional_principles, ensuring, upserting>>

\* initialize_tools, initialize_file_tools, initialize_memory_tools with the
\* components built before
StartTools ==
    /\ main_pc = "server"
    /\ qt_vector_store' = store
    /\ qt_prompt_manager' = TRUE
    /\ ft_file_processor' = TRUE
    /\ ft_vector_store' = store
    /\ mt_letter_protocol' = IF store THEN "attached" ELSE "detached"
    /\ main_pc' = NextStep(main_pc)
    /\ UNCHANGED <<index, points, nextId, clock, store, calls, last,
                   model, additional_principles, ensuring, upserting>>

\* a request reaches a registered tool while server.run is running
Serve ==
    /\ main_pc = "serving"
    /\ \/ GetVersion
       \/ GetCollectionStats
       \/ GetMemoryStatistics
       \/ CreateLetterForFutureSelf
       \/ RetrieveRecentMemories

\* server.run ends: KeyboardInterrupt is logged, any other exception gives
\* sys.exit(1)
StopServing ==
    /\ main_pc = "serving"
    /\ Idle
    /\ main_pc' \in {"exit0", "exit1"}
    /\ UNCHANGED <<index, points, nextId, clock, store, toolVars, calls, last,
                   model, additional_principles, ensuring, upserting>>

StartupNext ==
    StartupStep \/ StartStore \/ StartTools \/ Serve \/ StopServing \/ Return

StartupSpec == Init /\ [][StartupNext]_vars

(***************************************************************************)
(* Properties.                                                             *)
(***************************************************************************)
\* blank after trimming: nothing but whitespace
IsBlank(s) == \A i \in 1..Len(s) : s[i] \in Whitespace

AnyRaised(cs) == \E i \in 1..Len(cs) : cs[i].raised

IndexCalls(cs, op) == SelectSeq(cs, LAMBDA c : c.svc = "index" /\ c.op = op)

\* C1: a construction that returns leaves the three collections in the
\* index, and every construction made once a store exists issues no
\* create_collection call and leaves the index schema as it was.
C1_EnsureIdempotent ==
    [][last'.op = "construct" =>
          /\ last'.status = "ok" => CollectionNames \subseteq DOMAIN index'
          /\ store => /\ index' = index
                      /\ IndexCalls(calls', "create_collection") = <<>>]_vars

\* a store is constructed again after points were stored through an earlier one
C1_Witness ==
    /\ last.op = "construct"
    /\ last.status = "ok"
    /\ points # {}
    /\ IndexCalls(calls, "create_collection") = <<>>

\* C2: once a store has been constructed, logos_essence, project_knowledge
\* and canon exist in the index in every state, whatever operations follow.
C2_CollectionsExist == store => CollectionNames \subseteq DOMAIN index

\* a collection has been cleared through the store and is still there
C2_Witness ==
    /\ store
    /\ last.op = "clear_collection"
    /\ last.status = "ok"
    /\ last.coll \in DOMAIN index

\* C3: store_letter and create_and_store_letter on a letter whose summary or
\* emotional context is blank return False, make no call at all (so no
\* upsert) and leave the points of the index as they were.
C3_InvalidNeverStored ==
    [][(/\ last'.op \in {"store_letter", "create_and_store_letter"}
        /\ \/ IsBlank(last'.letters[1].interaction_summary)
           \/ IsBlank(last'.letters[1].emotional_context)) =>
          /\ last'.ret = "False"
          /\ calls' = <<>>
          /\ points' = points]_vars

\* a letter whose summary is a blank is refused by a protocol with a store
C3_Witness ==
    /\ last.op = "create_and_store_letter"
    /\ last.arg = "attached"
    /\ last.letters[1].interaction_summary = <<" ">>
    /\ last.letters[1].emotional_context = <<"c">>
    /\ last.ret = "False"

\* C4: upsert with an empty texts list and store_letters_bulk with an empty
\* list call neither the embedder nor the index and change no collection.
C4_EmptyBatchNoOp ==
    [][(\/ last'.op = "upsert" /\ last'.limit = 0
        \/ last'.op = "store_letters_bulk" /\ last'.letters = <<>>) =>
          /\ calls' = <<>>
          /\ points' = points
          /\ index' = index]_vars

\* an empty batch is upserted into an index that holds points
C4_Witness ==
    /\ last.op = "upsert"
    /\ last.limit = 0
    /\ last.status = "ok"
    /\ points # {}

\* C5: store_letter always returns, with True or False, and it returns True
\* exactly when a store is attached, the letter is valid and its one upsert
\* ran without any call raising.
C5_StoreLetterBoolean ==
    last.op = "store_letter" =>
        /\ last.status = "ok"
        /\ last.ret \in {"True", "False"}
        /\ last.ret = "True" <=>
              /\ last.arg = "attached"
              /\ ~IsBlank(last.letters[1].interaction_summary)
              /\ ~IsBlank(last.letters[1].emotional_context)
              /\ Len(IndexCalls(calls, "upsert")) = 1
              /\ ~AnyRaised(calls)

\* the upsert of a valid letter raised and store_letter returned False
C5_Witness ==
    /\ last.op = "store_letter"
    /\ last.ret = "False"
    /\ AnyRaised(IndexCalls(calls, "upsert"))

\* C6: query_logos and get_memory_context always return a response, whatever
\* the vector store or the constitution provider does; an error response
\* carries an error string and empty result lists.
C6_AlwaysResponds ==
    last.op \in {"query_logos", "get_memory_context"} =>
        /\ last.status = "ok"
        /\ last.ret \in {"sentinel", "error"} =>
              /\ last.error # ""
              /\ last.constitution \in {ConstitutionText, <<>>}
              /\ last.personality_memories = <<>>
              /\ last.project_knowledge = <<>>
              /\ last.memories = <<>>

\* the embedding of a query or a search of the index raised
SearchRaised(cs) ==
    \E i \in 1..Len(cs) : cs[i].raised /\ cs[i].svc \in {"embedder", "index"}

\* C7: when a search of query_logos raises, the result is the error bundle:
\* an error string, the constitution, both lists empty, and a metadata holding
\* the query and the error.
C7_SearchFailureBundle ==
    (last.op = "query_logos" /\ SearchRaised(calls)) =>
        /\ last.status = "ok"
        /\ last.ret = "error"
        /\ last.error # ""
        /\ last.constitution = ConstitutionText
        /\ last.personality_memories = <<>>
        /\ last.project_knowledge = <<>>
        /\ last.metadata = {"query", "error"}

\* query_tools: the module globals a tool reads, when one of them is unset
QueryToolsUnset(op) ==
    CASE op = "query_logos" -> ~qt_vector_store \/ ~qt_prompt_manager
      [] op = "get_constitution" -> ~qt_prompt_manager
      [] op \in {"get_memory_context", "get_collection_stats"} -> ~qt_vector_store
      [] OTHER -> FALSE

\* file_tools: the module globals a tool reads, when one of them is unset
FileToolsUnset(op) ==
    CASE op \in {"add_file", "add_file_base64", "list_files", "get_file_info",
                 "reindex_file"} -> ~ft_file_processor \/ ~ft_vector_store
      [] op = "delete_file" -> ~ft_vector_store
      [] op = "get_supported_formats" -> ~ft_file_processor
      [] OTHER -> FALSE

\* memory_tools: every tool reads _letter_protocol
MemoryToolsUnset(op) ==
    /\ op \in {"create_letter_for_future_self", "get_memory_statistics",
               "retrieve_recent_memories", "retrieve_memories_by_creator"}
    /\ mt_letter_protocol = "none"

\* the tool of the last call lacks a dependency
Uninitialized(op) ==
    QueryToolsUnset(op) \/ FileToolsUnset(op) \/ MemoryToolsUnset(op)

\* C8 as stated: a tool whose dependency is not set returns its sentinel
\* before anything else and calls no collaborator.
C8_SentinelFirst ==
    Uninitialized(last.op) => last.ret = "sentinel" /\ calls = <<>>

\* C8 as amended: a tool whose dependency is not set calls no collaborator and
\* returns its sentinel, except that add_file_base64 decodes its argument
\* first and reports undecodable content instead.
C8_SentinelAfterDecoding ==
    Uninitialized(last.op) =>
        /\ calls = <<>>
        /\ \/ last.ret = "sentinel"
           \/ /\ last.op = "add_file_base64"
              /\ last.arg = "invalid-base64!"
              /\ last.error = "Error: Invalid base64 content"

\* add_file_base64 with decodable content, before initialize_file_tools
C8_Witness ==
    /\ last.op = "add_file_base64"
    /\ Uninitialized(last.op)
    /\ last.arg = "dGVzdA=="
    /\ last.ret = "sentinel"

\* the entry get_memory_context makes of a search result of collection c
IsEntryOf(e, c, r) ==
    /\ e.collection = c
    /\ e.score = r.score
    /\ e.text = r.payload["text"]

\* C9: with "both", get_memory_context searches logos_essence and
\* project_knowledge with limit // 2 each and returns all results of both,
\* ordered by non-increasing score, essence before project on equal scores;
\* with "essence" or "project" it searches that collection alone, with limit.
C9_MergeAndRank ==
    (last.op = "get_memory_context" /\ last.ret = "memories") =>
        LET sc == IndexCalls(calls, "search")
            m == last.memories
        IN  /\ last.coll = "both" =>
                  /\ Len(sc) = 2
                  /\ sc[1].coll = "logos_essence"
                  /\ sc[2].coll = "project_knowledge"
                  /\ sc[1].n = last.limit \div 2
                  /\ sc[2].n = last.limit \div 2
                  /\ Len(m) = Len(sc[1].out) + Len(sc[2].out)
                  /\ \A k \in 1..2 : \A j \in 1..Len(sc[k].out) :
                        \E i \in 1..Len(m) : IsEntryOf(m[i], sc[k].coll, sc[k].out[j])
                  /\ \A i \in 1..(Len(m) - 1) : m[i].score >= m[i + 1].score
                  /\ \A i, j \in 1..Len(m) :
                        (i < j /\ m[i].score = m[j].score) =>
                            ~(/\ m[i].collection = "project_knowledge"
                              /\ m[j].collection = "logos_essence")
            /\ last.coll = "essence" =>
                  /\ Len(sc) = 1
                  /\ sc[1].coll = "logos_essence"
                  /\ sc[1].n = last.limit
            /\ last.coll = "project" =>
                  /\ Len(sc) = 1
                  /\ sc[1].coll = "project_knowledge"
                  /\ sc[1].n = last.limit

\* a project result of higher score was moved in front of an essence result
C9_Witness ==
    /\ last.op = "get_memory_context"
    /\ last.coll = "both"
    /\ Len(last.memories) = 2
    /\ last.memories[1].collection = "project_knowledge"
    /\ last.memories[2].collection = "logos_essence"
    /\ last.memories[1].score > last.memories[2].score

\* C10: the searches query_logos issues are logos_essence with min(limit, 3)
\* and then project_knowledge with limit, both of them unless it is not
\* initialized or a search raises; a bundle holds at most 3 personality
\* memories and at most limit project entries, and its counts are the lengths
\* of the two lists and their sum.
C10_FanOut ==
    last.op = "query_logos" =>
        LET sc == IndexCalls(calls, "search")
            pm == last.personality_memories
            pk == last.project_knowledge
        IN  /\ Len(sc) <= 2
            /\ Len(sc) >= 1 =>
                  /\ sc[1].coll = "logos_essence"
                  /\ sc[1].n = IF last.limit < 3 THEN last.limit ELSE 3
            /\ Len(sc) = 2 =>
                  /\ sc[2].coll = "project_knowledge"
                  /\ sc[2].n = last.limit
            /\ (last.ret # "sentinel" /\ ~SearchRaised(calls)) => Len(sc) = 2
            /\ last.ret = "bundle" =>
                  /\ Len(sc) = 2
                  /\ Len(pm) = Len(sc[1].out)
                  /\ Len(pk) = Len(sc[2].out)
                  /\ Len(pm) <= 3
                  /\ Len(pk) <= last.limit
                  /\ last.counts = <<Len(pm), Len(pk), Len(pm) + Len(pk)>>

\* a bundle for a limit above the cap, with results from both collections
C10_Witness ==
    /\ last.op = "query_logos"
    /\ last.ret = "bundle"
    /\ last.limit > 3
    /\ Len(last.personality_memories) >= 1
    /\ Len(last.project_knowledge) >= 1

\* calls to the embedder
EmbedCalls(cs) == SelectSeq(cs, LAMBDA c : c.svc = "embedder")

\* C11: a non-empty upsert makes one embedder call with all texts and one
\* index upsert call with one point per text; every point it adds has an id
\* no point had before, no existing point is replaced, the collection grows
\* by len(texts), and all point ids of the index are pairwise distinct.
C11_UpsertFresh ==
    [][/\ \A p, q \in points' : p.id = q.id => p = q
       /\ (last'.op = "upsert" /\ last'.limit > 0) =>
             LET n == last'.limit
                 c == last'.coll
                 added == points' \ points
             IN  /\ Len(EmbedCalls(calls')) = 1
                 /\ EmbedCalls(calls')[1].n = n
                 /\ Len(IndexCalls(calls', "upsert")) <= 1
                 /\ ~calls'[1].raised =>
                       /\ Len(IndexCalls(calls', "upsert")) = 1
                       /\ IndexCalls(calls', "upsert")[1].n = n
                       /\ IndexCalls(calls', "upsert")[1].coll = c
                 /\ last'.status = "raised" => points' = points
                 /\ last'.status = "ok" =>
                       /\ points \subseteq points'
                       /\ Cardinality(added) = n
                       /\ \A p \in added :
                             /\ p.coll = c
                             /\ \A q \in points : q.id # p.id]_vars

\* a second upsert into a collection that already holds a point
C11_Witness ==
    /\ last.op = "upsert"
    /\ last.status = "ok"
    /\ last.limit = 1
    /\ Cardinality(PointsOf(last.coll)) = 2

\* C12: the payload stored for texts[i] has a text key; with a metadatas[i]
\* it holds every entry of metadatas[i] (also for the key text), the text
\* entry being texts[i] unless metadatas[i] has one, and nothing else;
\* without a metadatas[i] it is exactly {"text": texts[i]}.
C12_PayloadPrecedence ==
    [][(last'.op = "upsert" /\ last'.status = "ok" /\ last'.limit > 0) =>
          LET texts == last'.texts
              metadatas == last'.metadatas
          IN  \A i \in 1..Len(texts) :
                \E p \in points' \ points :
                    /\ p.id = Uuid(nextId + i)
                    /\ "text" \in DOMAIN p.payload
                    /\ IF i <= Len(metadatas)
                       THEN LET m == metadatas[i]
                            IN  /\ DOMAIN p.payload = {"text"} \cup DOMAIN m
                                /\ \A k \in DOMAIN m : p.payload[k] = m[k]
                                /\ "text" \notin DOMAIN m =>
                                      p.payload["text"] = texts[i]
                       ELSE p.payload = [k \in {"text"} |-> texts[i]]]_vars

\* two texts, the first with a metadata that overrides its text
C12_Witness ==
    /\ last.op = "upsert"
    /\ last.status = "ok"
    /\ Len(last.texts) = 2
    /\ Len(last.metadatas) = 2
    /\ "text" \in DOMAIN last.metadatas[1]
    /\ \E p \in points : p.payload["text"] = last.metadatas[1]["text"]

\* what every step keeps of the index, and what a search returns of it: a
\* point keeps its payload while it exists, points appear only through an
\* index upsert into their collection, every search result is a point the
\* collection holds, and a collection of one point searched with limit 1
\* yields that point
SearchReturnsStored ==
    /\ \A q \in points, p \in points' :
          (p.id = q.id /\ p.coll = q.coll) => p.payload = q.payload
    /\ \A p \in points' \ points :
          \E i \in 1..Len(calls') :
              /\ calls'[i].svc = "index" /\ calls'[i].op = "upsert"
              /\ calls'[i].coll = p.coll /\ ~calls'[i].raised
    /\ (last'.op = "search" /\ last'.status = "ok") =>
          LET found == last'.memories
              held == {p \in points' : p.coll = last'.coll}
          IN  /\ \A j \in 1..Len(found) :
                    \E p \in held :
                        p.id = found[j].id /\ p.payload = found[j].payload
              /\ (Cardinality(held) = 1 /\ last'.limit = 1) => Len(found) = 1

\* the point a one-text upsert with one metadata has just added
OnePointUpsert ==
    /\ last'.op = "upsert" /\ last'.status = "ok"
    /\ Len(last'.texts) = 1 /\ Len(last'.metadatas) = 1

\* C13 as stated: the point stored by upsert(c, [t], [m]) has text == t and
\* every entry of m, and searches return stored, undeleted payloads.
C13_RoundTrip ==
    [][/\ SearchReturnsStored
       /\ OnePointUpsert =>
             \A p \in points' \ points :
                 /\ p.payload["text"] = last'.texts[1]
                 /\ \A k \in DOMAIN last'.metadatas[1] :
                       p.payload[k] = last'.metadatas[1][k]]_vars

\* C13 as amended: the point stored by upsert(c, [t], [m]) has every entry
\* of m, and text == t unless m has a text entry of its own; searches return
\* stored, undeleted payloads.
C13_RoundTripUnlessOverridden ==
    [][/\ SearchReturnsStored
       /\ OnePointUpsert =>
             \A p \in points' \ points :
                 /\ "text" \notin DOMAIN last'.metadatas[1] =>
                       p.payload["text"] = last'.texts[1]
                 /\ \A k \in DOMAIN last'.metadatas[1] :
                       p.payload[k] = last'.metadatas[1][k]]_vars

\* the only point of a collection, stored with a file entry, found by a
\* search with limit 1
C13_Witness ==
    /\ last.op = "search"
    /\ last.status = "ok"
    /\ last.limit = 1
    /\ Cardinality(PointsOf(last.coll)) = 1
    /\ Len(last.memories) = 1
    /\ "file" \in DOMAIN last.memories[1].payload

\* sub occurs in text
Contains(text, sub) ==
    \E i \in 0..(Len(text) - Len(sub)) : SubSeq(text, i + 1, i + Len(sub)) = sub

\* s[:200]
First200(s) == SubSeq(s, 1, IF Len(s) < 200 THEN Len(s) ELSE 200)

\* the payload a stored letter must have
IsLetterPayload(payload, letter) ==
    /\ DOMAIN payload = {"text", "type", "letter_id", "creator",
                         "emotional_context", "timestamp",
                         "interaction_summary", "lesson_learned"}
    /\ payload["type"] = <<"future_letter">>
    /\ payload["letter_id"] = letter.letter_id
    /\ payload["creator"] = letter.creator
    /\ payload["emotional_context"] = letter.emotional_context
    /\ payload["timestamp"] = letter.timestamp
    /\ payload["interaction_summary"] = First200(letter.interaction_summary)
    /\ payload["lesson_learned"] = First200(letter.lesson_learned)
    /\ Head(payload["text"]) = "Letter for the Future Self"
    /\ Contains(payload["text"], <<"Summary:", " ">> \o letter.interaction_summary)
    /\ Contains(payload["text"], <<"Context:", " ">> \o letter.emotional_context)
    /\ IF letter.lesson_learned # <<>>
       THEN Contains(payload["text"], <<"Lesson:", " ">> \o letter.lesson_learned)
       ELSE ~Contains(payload["text"], <<"Lesson:">>)

\* C14: create_and_store_letter with non-blank summary and context on a
\* store whose calls succeed returns True after one upsert to logos_essence
\* of one point: its text is the letter text (with the summary and, only for
\* a non-empty lesson, the lesson line), its metadata is type future_letter,
\* letter_id, creator, emotional_context, timestamp, and the summary and the
\* lesson cut to 200 characters.
C14_CreateAndStore ==
    [][(/\ last'.op = "create_and_store_letter"
        /\ last'.arg = "attached"
        /\ ~IsBlank(last'.letters[1].interaction_summary)
        /\ ~IsBlank(last'.letters[1].emotional_context)
        /\ ~AnyRaised(calls')) =>
          LET up == IndexCalls(calls', "upsert")
              added == points' \ points
          IN  /\ last'.ret = "True"
              /\ last'.status = "ok"
              /\ Len(EmbedCalls(calls')) = 1
              /\ EmbedCalls(calls')[1].n = 1
              /\ Len(up) = 1
              /\ up[1].coll = "logos_essence"
              /\ up[1].n = 1
              /\ points \subseteq points'
              /\ Cardinality(added) = 1
              /\ \A p \in added :
                    /\ p.coll = "logos_essence"
                    /\ IsLetterPayload(p.payload, last'.letters[1])]_vars

\* a stored letter whose summary and lesson are longer than 200 characters
C14_Witness ==
    /\ last.op = "create_and_store_letter"
    /\ last.ret = "True"
    /\ Len(last.letters[1].interaction_summary) > 200
    /\ Len(last.letters[1].lesson_learned) > 200
    /\ \E p \in PointsOf("logos_essence") :
          Len(p.payload["interaction_summary"]) = 200

\* the letters of a list whose summary and context are not blank, in order
NonBlankLetters(letters) ==
    SelectSeq(letters, LAMBDA l : /\ ~IsBlank(l.interaction_summary)
                                  /\ ~IsBlank(l.emotional_context))

\* C15: store_letters_bulk on an attached store returns False without a call
\* when no letter is valid; otherwise it makes one upsert to logos_essence
\* with the texts and metadatas of the valid letters, in input order, and
\* returns False, storing nothing, when a call of that upsert raises.
C15_BulkOneUpsert ==
    [][(last'.op = "store_letters_bulk" /\ last'.arg = "attached") =>
          LET valid == NonBlankLetters(last'.letters)
              up == IndexCalls(calls', "upsert")
              added == points' \ points
          IN  /\ last'.status = "ok"
              /\ valid = <<>> =>
                    /\ last'.ret = "False"
                    /\ calls' = <<>>
                    /\ points' = points
              /\ valid # <<>> =>
                    /\ Len(EmbedCalls(calls')) = 1
                    /\ EmbedCalls(calls')[1].n = Len(valid)
                    /\ Len(up) <= 1
                    /\ ~calls'[1].raised =>
                          /\ Len(up) = 1
                          /\ up[1].coll = "logos_essence"
                          /\ up[1].n = Len(valid)
                    /\ AnyRaised(calls') =>
                          /\ last'.ret = "False"
                          /\ points' = points
                    /\ ~AnyRaised(calls') =>
                          /\ last'.ret = "True"
                          /\ points \subseteq points'
                          /\ Cardinality(added) = Len(valid)
                          /\ \A i \in 1..Len(valid) :
                                \E p \in added :
                                    /\ p.id = Uuid(nextId + i)
                                    /\ p.coll = "logos_essence"
                                    /\ IsLetterPayload(p.payload, valid[i])]_vars

\* a batch of a blank letter and a valid one, stored
C15_Witness ==
    /\ last.op = "store_letters_bulk"
    /\ last.ret = "True"
    /\ Len(last.letters) = 2
    /\ IsBlank(last.letters[1].interaction_summary)
    /\ ~IsBlank(last.letters[2].interaction_summary)

\* C16: when store_letters_bulk returns True, every letter of the input list
\* is a point of logos_essence.
C16_TrueMeansAllStored ==
    (last.op = "store_letters_bulk" /\ last.ret = "True") =>
        \A i \in 1..Len(last.letters) :
            \E p \in PointsOf("logos_essence") :
                IsLetterPayload(p.payload, last.letters[i])

\* C17: for a valid letter, the summary extracted from its formatted text is
\* its interaction_summary.
C17_SummaryRoundTrip ==
    (/\ last.op \in {"store_letter", "create_and_store_letter"}
     /\ ~IsBlank(last.letters[1].interaction_summary)
     /\ ~IsBlank(last.letters[1].emotional_context)) =>
        extract_summary_from_letter(format_letter(last.letters[1]))
            = last.letters[1].interaction_summary

\* where tok stands in the prompt
Positions(prompt, tok) == {i \in 1..Len(prompt) : prompt[i] = tok}

\* the lines a section must hold after its header: one bullet per entry
RECURSIVE BulletLines(_)
BulletLines(entries) ==
    IF entries = <<>> THEN <<"\n">>
    ELSE <<"* ">> \o Head(entries) \o <<"\n">> \o BulletLines(Tail(entries))

\* the header stands once in the prompt, after the constitution and the
\* operational guidelines, followed by the bullets of the entries in order
SectionOf(prompt, header, entries) ==
    /\ Cardinality(Positions(prompt, header)) = 1
    /\ \A h \in Positions(prompt, header) :
          LET body == <<"\n">> \o BulletLines(entries)
          IN  /\ \A g \in Positions(prompt, "OPERATIONAL GUIDELINES:") : g < h
              /\ \A g \in Positions(prompt, "LOGOS CONSTITUTION:") : g < h
              /\ SubSeq(prompt, h + 1, h + Len(body)) = body

\* C18: build_system_prompt emits the PERSONALITY CONTEXT section iff the
\* personality list is non-empty and the TECHNICAL CONTEXT section iff the
\* technical list (the legacy list when no technical list is given) is
\* non-empty, personality before technical, both after the constitution and
\* the operational guidelines, each with one bullet per entry in input
\* order; it emits the NOTICE line iff both lists are empty.
C18_PromptSections ==
    last.op = "build_system_prompt" =>
        LET prompt == last.prompt
            personality == last.personality_memories
            technical == IF last.project_knowledge # <<>>
                         THEN last.project_knowledge
                         ELSE last.memories
            ph == "PERSONALITY CONTEXT (Memories & Experiences):"
            th == "TECHNICAL CONTEXT (Knowledge & Facts):"
            notice == "NOTICE: No additional context provided."
        IN  /\ Positions(prompt, "LOGOS CONSTITUTION:") = {1}
            /\ Cardinality(Positions(prompt, "OPERATIONAL GUIDELINES:")) = 1
            /\ IF personality # <<>>
               THEN SectionOf(prompt, ph, personality)
               ELSE Positions(prompt, ph) = {}
            /\ IF technical # <<>>
               THEN SectionOf(prompt, th, technical)
               ELSE Positions(prompt, th) = {}
            /\ \A i \in Positions(prompt, ph), j \in Positions(prompt, th) : i < j
            /\ Positions(prompt, notice) # {}
                  <=> (personality = <<>> /\ technical = <<>>)
            /\ Positions(prompt, notice) # {} =>
                  Positions(prompt, ph) \cup Positions(prompt, th) = {}

\* a prompt with two personality entries and one technical entry
C18_Witness ==
    /\ last.op = "build_system_prompt"
    /\ Len(last.personality_memories) = 2
    /\ last.personality_memories[1] # last.personality_memories[2]
    /\ Len(last.project_knowledge) = 1
    /\ Positions(last.prompt, "TECHNICAL CONTEXT (Knowledge & Facts):") # {}

\* C19: get_collection_info never raises and changes nothing; it asks the
\* index for the collection once and returns {name, status "error", error}
\* when that call raises, {name, vectors_count, points_count, status
\* "exists"} with the collection's number of points otherwise.
C19_CollectionInfoValue ==
    [][last'.op = "get_collection_info" =>
          /\ last'.status = "ok"
          /\ index' = index
          /\ points' = points
          /\ Len(calls') = 1
          /\ calls'[1].op = "get_collection"
          /\ last'.coll = calls'[1].coll
          /\ IF calls'[1].raised
             THEN /\ last'.ret = "error"
                  /\ last'.error # ""
                  /\ last'.metadata = {"name", "status", "error"}
             ELSE /\ last'.ret = "exists"
                  /\ last'.error = ""
                  /\ last'.metadata =
                        {"name", "vectors_count", "points_count", "status"}
                  /\ last'.limit = Cardinality(PointsOf(last'.coll))]_vars

\* the index failed to return a collection that holds a point
C19_Witness ==
    /\ last.op = "get_collection_info"
    /\ last.ret = "error"
    /\ PointsOf(last.coll) # {}

\* C20 as stated: get_statistics never raises; without a store, or when
\* reading the collection's info fails, it returns total_letters 0 and
\* collection_status "unknown"; otherwise total_letters is the number of
\* points of logos_essence.
C20_StatisticsDefaults ==
    last.op = "get_statistics" =>
        /\ last.status = "ok"
        /\ IF last.arg = "detached" \/ AnyRaised(calls)
           THEN last.limit = 0 /\ last.ret = "unknown"
           ELSE last.limit = Cardinality(PointsOf("logos_essence"))

\* C20 as amended: get_statistics never raises; without a store it returns
\* total_letters 0 and collection_status "unknown"; when the index fails to
\* return the collection it returns total_letters 0 and collection_status
\* "error"; otherwise total_letters is the number of points of logos_essence
\* and collection_status is "exists".
C20_StatisticsPassThrough ==
    last.op = "get_statistics" =>
        /\ last.status = "ok"
        /\ IF last.arg = "detached"
           THEN calls = <<>> /\ last.limit = 0 /\ last.ret = "unknown"
           ELSE IF AnyRaised(calls)
           THEN last.limit = 0 /\ last.ret = "error"
           ELSE /\ last.limit = Cardinality(PointsOf("logos_essence"))
                /\ last.ret = "exists"

\* statistics of a store whose index fails, with letters stored
C20_Witness ==
    /\ last.op = "get_statistics"
    /\ last.arg = "attached"
    /\ AnyRaised(calls)
    /\ last.ret = "error"
    /\ PointsOf("logos_essence") # {}

(***************************************************************************)
(* Selectors and limits of get_memory_context.                             *)
(***************************************************************************)
\* the selectors the two membership tests of get_memory_context know
SupportedSelectors == {"essence", "project", "both"}

\* C21: get_memory_context called with a collection other than "essence",
\* "project" or "both" raises nothing, performs no search and returns a
\* result that carries an error.
C21_UnsupportedSelectorError ==
    (last.op = "get_memory_context" /\ last.coll \notin SupportedSelectors) =>
        /\ last.status = "ok"
        /\ IndexCalls(calls, "search") = <<>>
        /\ EmbedCalls(calls) = <<>>
        /\ last.error # ""

\* C30: for collection "both" each search of get_memory_context is issued with
\* limit // 2, the result holds at most 2 * (limit // 2) <= limit memories,
\* and for limit = 1 both searches ask for 0 results and the result is empty.
C30_HalvedLimits ==
    (last.op = "get_memory_context" /\ last.coll = "both") =>
        LET sc == IndexCalls(calls, "search")
            half == last.limit \div 2
        IN  /\ \A i \in 1..Len(sc) : sc[i].n = half
            /\ Len(last.memories) <= 2 * half
            /\ 2 * half <= last.limit
            /\ last.limit = 1 => /\ last.memories = <<>>
                                 /\ \A i \in 1..Len(sc) : sc[i].out = <<>>
            /\ last.ret = "memories" =>
                  /\ Len(sc) = 2
                  /\ Len(last.memories) = Len(sc[1].out) + Len(sc[2].out)

\* limit 1 over two populated collections: two searches for 0 results
C30_Witness ==
    /\ last.op = "get_memory_context"
    /\ last.coll = "both"
    /\ last.limit = 1
    /\ last.ret = "memories"
    /\ PointsOf("logos_essence") # {}
    /\ PointsOf("project_knowledge") # {}
    /\ Len(IndexCalls(calls, "search")) = 2
    /\ last.memories = <<>>

(***************************************************************************)
(* File deletion and recent memories.                                      *)
(***************************************************************************)
\* C26: once delete_file has found chunks in the collection and returned,
\* none of the chunks it found is left in that collection.
C26_ChunksRemoved ==
    (last.op = "delete_file" /\ last.ret = "delete_requested") =>
        \A i \in 1..Len(last.memories) :
            \A p \in PointsOf(last.coll) : p.id # last.memories[i].id

\* the letters of the essence collection
LetterPoints ==
    {p \in PointsOf("logos_essence") :
        DictGet(p.payload, "type", <<>>) = <<"future_letter">>}

\* a timestamp as a number: datetime.now() of the n-th letter constructed
TimeOf(timestamp) == CHOOSE n \in 0..clock : timestamp = <<ToString(n)>>

\* C25: the memories retrieve_recent_memories(limit) returns are the (up to)
\* limit letters of the essence collection with the latest timestamps.
C25_MostRecent ==
    (/\ last.op = "retrieve_recent_memories"
     /\ last.ret = "memories"
     /\ ~AnyRaised(calls)
     /\ mt_letter_protocol = "attached") =>
        LET returned == {last.memories[i].letter_id : i \in 1..Len(last.memories)}
        IN  /\ Len(last.memories) = Min(last.limit, Cardinality(LetterPoints))
            /\ \A i \in 1..Len(last.memories) :
                  \A p \in LetterPoints :
                      p.payload["letter_id"] \notin returned =>
                          TimeOf(p.payload["timestamp"])
                              <= TimeOf(last.memories[i].timestamp)

(***************************************************************************)
(* Constitution.                                                           *)
(***************************************************************************)
\* the principle add_principle(name, description) stores
Added(name, description) == [name |-> Strip(name), text |-> Strip(description)]

\* C22: no step removes or replaces a principle of additional_principles; an
\* add_principle that returns leaves the (trimmed) name mapped to the
\* (trimmed) description it was given, an add_principle that raises
\* ValueError leaves the mapping as it was, and get_constitution renders a
\* line for every principle of the mapping.
C22_AppendOnly ==
    [][/\ \A i \in 1..Len(additional_principles) :
              \E j \in 1..Len(additional_principles') :
                  additional_principles'[j] = additional_principles[i]
       /\ (last'.op = "add_principle" /\ last'.status = "ok") =>
              \E j \in 1..Len(additional_principles') :
                  additional_principles'[j] = Added(last'.texts[1], last'.texts[2])
       /\ (last'.op = "add_principle" /\ last'.status = "raised") =>
              additional_principles' = additional_principles
       /\ last'.op = "constitution" =>
              \A i \in 1..Len(additional_principles) :
                  Contains(last'.constitution,
                           <<"* ">> \o additional_principles[i].name \o <<": ">>
                           \o additional_principles[i].text \o <<"\n">>)]_vars

(***************************************************************************)
(* Embedder.                                                               *)
(***************************************************************************)
\* TextEmbedding(model_name=...) raised during the construction
LoadFailed(cs) ==
    /\ cs # <<>>
    /\ cs[1].svc = "fastembed"
    /\ cs[1].raised

\* C23: a LogosEmbedder construction in which loading the model fails does
\* not raise; on the embedder it leaves, embed_text returns one vector per
\* text, all of the embedder's dimension, and vector_size returns that
\* dimension whenever embedding works.
C23_FallbackNeverRaises ==
    /\ (last.op = "LogosEmbedder" /\ LoadFailed(calls)) =>
           /\ last.status = "ok"
           /\ model.kind \notin {"unset", "named"}
    /\ (last.op = "embed_text" /\ last.status = "ok") =>
           /\ Len(last.counts) = Len(last.texts)
           /\ \A i \in 1..Len(last.counts) : last.counts[i] = model.size
    /\ (last.op = "vector_size" /\ ~AnyRaised(calls)) => last.limit = model.size

(***************************************************************************)
(* Vector sizes.                                                           *)
(***************************************************************************)
\* C24: once a construction (and with it ensure_collections) has returned,
\* each of the three collections is in the index with the vector size of the
\* store's embedder, collections that were there before included.
C24_OneVectorSize ==
    (last.op = "construct" /\ last.status = "ok") =>
        \A c \in CollectionNames :
            /\ c \in DOMAIN index
            /\ index[c] = VECTOR_SIZE

(***************************************************************************)
(* Concurrent callers.                                                     *)
(***************************************************************************)
\* C27: no _ensure_collections call issues create_collection for a
\* collection the index already has, so none fails on a duplicate
\* collection, also when the steps of two constructions interleave.
C27_NoDuplicateCreate ==
    \A p \in Callers : ensuring[p].error # "exists"

\* the points of the upsert calls that have returned
SentPoints == UNION {upserting[p].points : p \in {q \in Callers : upserting[q].pc = "done"}}

\* C29: whatever the interleaving of two upsert calls on one collection, once
\* both have returned the collection holds every point of both calls as it
\* was built, under pairwise distinct ids, and nothing else.
C29_NoLostUpsert ==
    /\ SentPoints \subseteq points
    /\ \A x, y \in SentPoints : x # y => x.id # y.id
    /\ (\A p \in Callers : upserting[p].pc = "done") =>
           /\ PointsOf(SharedCollection) = SentPoints
           /\ Cardinality(PointsOf(SharedCollection)) =
                  Cardinality(upserting[1].points) + Cardinality(upserting[2].points)

\* both calls returned, each with points of its own, and the one that
\* reached the index first did so while the other was under way
C29_Witness ==
    /\ \A p \in Callers : upserting[p].pc = "done" /\ upserting[p].points # {}
    /\ \E p \in Callers : upserting[p].overlapped
    /\ Cardinality(PointsOf(SharedCollection)) >= 2

(***************************************************************************)
(* Startup.                                                                *)
(***************************************************************************)
\* some initialize_* call has run
AnyToolInitialized ==
    \/ qt_vector_store
    \/ qt_prompt_manager
    \/ ft_file_processor
    \/ ft_vector_store
    \/ mt_letter_protocol # "none"

\* C28: no tool is initialized before the vector store has been constructed
\* and the three collections exist; a request is served only while main is
\* serving, which it starts only once create_logos_server has returned; when
\* get_config or the vector store construction raises, main ends with status
\* 1 with no tool initialized, and after that nothing is served.
C28_StartupOrder ==
    /\ [](AnyToolInitialized =>
              /\ store
              /\ CollectionNames \subseteq DOMAIN index
              /\ main_pc \notin {"start", "config", "logging", "connected"})
    /\ [](last.op # "none" => main_pc = "serving")
    /\ [][/\ (main_pc' = "serving" /\ main_pc # "serving") => main_pc = "registered"
          /\ (main_pc \in {"start", "connected"} /\ main_pc' # NextStep(main_pc)
              /\ main_pc' # main_pc) =>
                 /\ main_pc' = "exit1"
                 /\ ~AnyToolInitialized'
          /\ main_pc \in {"exit0", "exit1"} =>
                 /\ main_pc' = main_pc
                 /\ last' = last]_vars

\* a request is answered by a server that went through the whole startup
C28_Witness ==
    /\ main_pc = "serving"
    /\ last.op = "get_collection_stats"
    /\ last.ret = "stats"
    /\ store

====
